---- MODULE Spec2Model ----
(***************************************************************************)
(* Model of the air-quality request pipeline: CacheService (memory Map +   *)
(* localStorage tier, TTL, LRU eviction) and APIFacade.getAirQualityData   *)
(* (cache check, geocoding and air-quality calls with _retryOperation,     *)
(* lifecycle events).                                                      *)
(*                                                                         *)
(* Time is the value of Date.now(), counted in abstract ticks.  One        *)
(* synchronous run of code between two awaits is one action.               *)
(***************************************************************************)
EXTENDS Integers, Sequences, FiniteSets, TLC

\* ---------------------------------------------------------------- bounds
MaxTime == 2            \* the clock stops advancing here
MaxMemoryItems == 2     \* config.maxMemoryItems (constructor option)
DefaultTTL == 1         \* config.defaultTTL in ticks (constructor option)
MaxAccess == 1          \* cap on accessCount of one cache item

\* ------------------------------------------------------------ data types
Null == "null"
NullItem == [key |-> Null]       \* cacheItem = null
NoItem == [empty |-> TRUE]       \* localStorage.getItem(...) = null
NoTTL == 0                       \* ttl = null: `ttl || defaultTTL`
Absent == <<>>                   \* a returned null where data is expected
Some(d) == <<d>>                 \* a returned data value

\* Inputs of the CacheService operations.
CacheKeys == {"k1", "k2", "k3"}
CacheData(k) == {"data_" \o k}
TTLs == {NoTTL, DefaultTTL}

VARIABLES
    now,            \* Date.now()
    memoryCache,    \* CacheService.memoryCache: a Map, kept in insertion order
    localStorage,   \* window.localStorage restricted to storagePrefix keys
    lastGet,        \* the last operation when it was a get: its key, what it
                    \* returned, and whether it found an item in some tier
    calls,          \* the getAirQualityData calls: where each one stands
    classified,     \* the last _classifyAQI call: its arguments and result
    processedData,  \* what the last getAirQuality call resolved with
    listeners,      \* EventManager.listeners[event], for one event
    handles,        \* the listener id each unsubscribe function returned by
                    \* subscribe has captured, in the order of the calls
    invoked,        \* the callbacks the last operation invoked, in order
    publishOutcome, \* how the last publish call came back to its caller
    asyncPublish,   \* the publishAsync call in flight
    loading,        \* the LoadingComponent: its config, state and timers
    session,        \* the FormComponent and the AirQualityController: the
                    \* submissions and the searches they started
    commands,       \* the CommandManager: history, index, pending calls
    configure       \* a ConfigureCommand and the config of its target

vars == <<now, memoryCache, localStorage, lastGet, calls,
          classified, processedData,
          listeners, handles, invoked, publishOutcome, asyncPublish,
          loading, session, commands, configure>>

\* The state of the EventManager.
busVars == <<listeners, handles, invoked, publishOutcome, asyncPublish>>

NoAsyncPublish == [status |-> "none", wrappers |-> {}, running |-> {}]

BusInit ==
    /\ listeners = <<>>
    /\ handles = <<>>
    /\ invoked = <<>>
    /\ publishOutcome = "none"
    /\ asyncPublish = NoAsyncPublish

\* The state of the AirQualityService calls.
aqVars == <<classified, processedData>>

NoClassification == [level |-> "none"]
NoData == [aqi |-> "none"]

\* The state of the view components and of the controller.
uiVars == <<loading, session, commands, configure>>

DefaultMessage == "Carregando..."      \* config.message

\* new LoadingComponent(element, { animated }): config and state as the
\* constructor leaves them, no timer pending, nothing returned yet.
\* returned is the call that has just returned, lastCall the latest of the
\* show() and hide() calls made so far (the timeout timer calls hide()).
NewLoading(animated) ==
    [animated |-> animated, type |-> "spinner", progress |-> 0,
     isActive |-> FALSE, timeoutId |-> "null",
     currentMessage |-> DefaultMessage, hiding |-> FALSE, rendered |-> FALSE,
     finishTimers |-> 0, timeoutArmed |-> FALSE, returned |-> "none",
     lastCall |-> "none"]

\* The form and the controller after construction.
NewSession ==
    [isSubmitting |-> FALSE, validating |-> Absent, submits |-> 0,
     formSubmits |-> 0, isLoading |-> FALSE,
     commandHistory |-> <<>>, currentCommandIndex |-> -1,
     searches |-> <<>>, errors |-> <<>>, shown |-> <<>>]

\* new CommandManager(maxHistorySize), and the commands not yet executed.
\* thrown tells whether the last step threw to its caller, notified what it
\* passed to _notifyListeners.
NewCommands ==
    [history |-> <<>>, currentIndex |-> -1, executed |-> {}, pending |-> {},
     thrown |-> FALSE, notified |-> "none"]

ConfigKeys == {"theme", "units"}
ConfigValues == {"a", "b"}

\* The objects over ConfigKeys: a key the object does not have maps to
\* "undefined".
NoKeys == [k \in ConfigKeys |-> "undefined"]

\* The config of the target object before any command, and no
\* ConfigureCommand constructed yet.  before is target.config as the last
\* successful execute() found it, last the latest step taken.
NewConfigure ==
    [config |-> [NoKeys EXCEPT !["theme"] = "a"],
     constructed |-> FALSE, newConfig |-> NoKeys, previousConfig |-> NoKeys,
     targetObject |-> FALSE, executed |-> FALSE,
     before |-> NoKeys, last |-> "none", thrown |-> FALSE]

UIInit ==
    /\ loading = NewLoading(TRUE)
    /\ session = NewSession
    /\ commands = NewCommands
    /\ configure = NewConfigure

\* What the cache and the facade leave alone, and where it starts.
outsideFacade == <<aqVars, busVars, uiVars>>

OutsideFacadeInit ==
    /\ classified = NoClassification
    /\ processedData = NoData
    /\ BusInit
    /\ UIInit

\* ------------------------------------------------------------ Map helpers
MemKeys(mem) == {mem[i].key : i \in DOMAIN mem}

MemHas(mem, k) == k \in MemKeys(mem)

MemIndex(mem, k) == CHOOSE i \in DOMAIN mem : mem[i].key = k

MemGet(mem, k) == mem[MemIndex(mem, k)]

\* A slip that adds an entry whether or not the key is there.
MemSetAppending(mem, k, item) == Append(mem, item)

\* Map.set: an existing key keeps its position, a new key goes last.
MemSet(mem, k, item) ==
    IF MemHas(mem, k) THEN [mem EXCEPT ![MemIndex(mem, k)] = item]
    ELSE Append(mem, item)

MemDelete(mem, k) == SelectSeq(mem, LAMBDA it : it.key # k)

\* JSON.stringify / JSON.parse of a cache item: the stored form is a string
\* wrapper around the item's own fields (all of them JSON-safe values).
JSONstringify(item) == [json |-> item]

JSONparse(stored) == stored.json

\* ---------------------------------------------------------- CacheService
\* A slip that keeps an item one tick past its expiry.
IsExpiredLate(cacheItem, t) == t > cacheItem.expiresAt + 1

IsExpired(cacheItem, t) == t > cacheItem.expiresAt

\* The scan of _evictLeastRecentlyUsed: oldestTime starts at Date.now(), an
\* item replaces the candidate only when strictly older.
RECURSIVE EvictScan(_, _, _, _)
EvictScan(mem, i, oldestKey, oldestTime) ==
    IF i > Len(mem) THEN oldestKey
    ELSE IF mem[i].lastAccessed < oldestTime
         THEN EvictScan(mem, i + 1, mem[i].key, mem[i].lastAccessed)
         ELSE EvictScan(mem, i + 1, oldestKey, oldestTime)

EvictLeastRecentlyUsed(mem, t) ==
    LET oldestKey == EvictScan(mem, 1, Null, t)
    IN  IF oldestKey # Null THEN MemDelete(mem, oldestKey) ELSE mem

\* A slip that leaves the time-to-live out of the expiry.
NewItemWithoutTTL(k, d, ttl, t) ==
    [key |-> k, data |-> d, createdAt |-> t, expiresAt |-> t,
     accessCount |-> 0, lastAccessed |-> t]

NewItem(k, d, ttl, t) ==
    [key |-> k, data |-> d, createdAt |-> t,
     expiresAt |-> t + (IF ttl # NoTTL THEN ttl ELSE DefaultTTL),
     accessCount |-> 0, lastAccessed |-> t]

\* set(key, data, ttl); writeOk = FALSE is localStorage.setItem throwing.
CacheSet(mem, ls, k, d, ttl, t, writeOk) ==
    LET item == NewItem(k, d, ttl, t)
        mem1 == IF Len(mem) >= MaxMemoryItems
                THEN EvictLeastRecentlyUsed(mem, t) ELSE mem
    IN  [mem |-> MemSet(mem1, k, item),
         ls  |-> IF writeOk THEN [ls EXCEPT ![k] = JSONstringify(item)] ELSE ls,
         ret |-> TRUE]

CacheDelete(mem, ls, k) ==
    [mem |-> MemDelete(mem, k),
     ls  |-> [ls EXCEPT ![k] = NoItem],
     ret |-> MemHas(mem, k) \/ ls[k] # NoItem]

\* get(key): memory first, localStorage as fallback (reloading a valid item
\* into memory); an expired item is deleted; a hit touches the item.
CacheGet(mem, ls, k, t) ==
    LET inMem    == MemHas(mem, k)
        cacheItem == IF inMem THEN MemGet(mem, k)
                     ELSE IF ls[k] # NoItem THEN JSONparse(ls[k]) ELSE NullItem
        mem1     == IF ~inMem /\ cacheItem # NullItem /\ ~IsExpired(cacheItem, t)
                    THEN MemSet(mem, k, cacheItem) ELSE mem
    IN  IF cacheItem = NullItem THEN [mem |-> mem1, ls |-> ls, ret |-> Absent]
        ELSE IF IsExpired(cacheItem, t)
        THEN [mem |-> CacheDelete(mem1, ls, k).mem,
              ls  |-> CacheDelete(mem1, ls, k).ls,
              ret |-> Absent]
        ELSE [mem |-> MemSet(mem1, k,
                         [cacheItem EXCEPT !.accessCount = @ + 1,
                                           !.lastAccessed = t]),
              ls  |-> ls,
              ret |-> Some(cacheItem.data)]

CacheClear(mem, ls) ==
    [mem |-> <<>>, ls |-> [k \in DOMAIN ls |-> NoItem], ret |-> Null]

\* _cleanupExpired: the periodic sweep started by _startAutoCleanup.
CleanupExpired(mem, ls, t) ==
    [mem |-> SelectSeq(mem, LAMBDA it : ~IsExpired(it, t)),
     ls  |-> [k \in DOMAIN ls |->
                 IF ls[k] # NoItem /\ IsExpired(JSONparse(ls[k]), t)
                 THEN NoItem ELSE ls[k]],
     ret |-> Null]

\* healthCheck(): a test entry is set, read back and deleted through the
\* public operations.  Its time-to-live is a second, below one tick; the
\* three operations run at the same value of Date.now().
TestKey == "health_check_test"
TestData == "test"
TestTTL == 1

CacheHealthCheck(mem, ls, t, writeOk) ==
    LET written == CacheSet(mem, ls, TestKey, TestData, TestTTL, t, writeOk)
        read == CacheGet(written.mem, written.ls, TestKey, t)
        deleted == CacheDelete(read.mem, read.ls, TestKey)
    IN  [mem |-> deleted.mem, ls |-> deleted.ls,
         ret |-> read.ret = Some(TestData)]

\* ------------------------------- CacheService with the storage tier down
\* localStorage.getItem / .length throwing (storage disabled or blocked).
\* A body is what the try block of an operation leaves behind: the tiers at
\* the point it stopped, the value it returned, and whether it stopped by an
\* exception (exc).

\* A slip that lets the exception out of the operation.
CaughtRethrowing(body, fallback) ==
    [mem |-> body.mem, ls |-> body.ls, ret |-> fallback,
     caught |-> body.exc, threw |-> body.exc]

\* `catch (error) { console.error(...); return fallback }` around the body.
Caught(body, fallback) ==
    [mem |-> body.mem, ls |-> body.ls,
     ret |-> IF body.exc THEN fallback ELSE body.ret,
     caught |-> body.exc, threw |-> FALSE]

\* delete(key): the memory entry goes, then localStorage.getItem throws.
CacheDeleteStorageDown(mem, ls, k) ==
    Caught([mem |-> MemDelete(mem, k), ls |-> ls, ret |-> MemHas(mem, k),
            exc |-> TRUE], FALSE)

\* get(key): a key held in memory is served without reading the storage (an
\* expired one goes through delete); any other key reads it, and throws.
CacheGetStorageDown(mem, ls, k, t) ==
    IF ~MemHas(mem, k)
    THEN Caught([mem |-> mem, ls |-> ls, ret |-> Absent, exc |-> TRUE], Absent)
    ELSE LET cacheItem == MemGet(mem, k)
             del == CacheDeleteStorageDown(mem, ls, k)
         IN  IF IsExpired(cacheItem, t)
             THEN Caught([mem |-> del.mem, ls |-> del.ls, ret |-> Absent,
                          exc |-> del.threw], Absent)
             ELSE Caught([mem |-> MemSet(mem, k,
                                     [cacheItem EXCEPT !.accessCount = @ + 1,
                                                       !.lastAccessed = t]),
                          ls |-> ls, ret |-> Some(cacheItem.data),
                          exc |-> FALSE], Absent)

\* clear(): the memory Map is emptied, then localStorage.length throws.
CacheClearStorageDown(mem, ls) ==
    Caught([mem |-> <<>>, ls |-> ls, ret |-> Null, exc |-> TRUE], Null)

\* ------------------------------------------- CacheService as a machine
NoGet == [key |-> Null, ret |-> Absent, had |-> FALSE]

\* The item get(k) looks at.
Peek(mem, ls, k) ==
    IF MemHas(mem, k) THEN MemGet(mem, k)
    ELSE IF ls[k] # NoItem THEN JSONparse(ls[k]) ELSE NullItem

Op(name, k, r) ==
    /\ memoryCache' = r.mem
    /\ localStorage' = r.ls
    /\ lastGet' = IF name = "get"
                  THEN [key |-> k, ret |-> r.ret,
                        had |-> Peek(memoryCache, localStorage, k) # NullItem]
                  ELSE NoGet
    /\ UNCHANGED <<now, calls>>
    /\ UNCHANGED outsideFacade

InitCache ==
    /\ now = 0
    /\ memoryCache = <<>>
    /\ localStorage = [k \in CacheKeys |-> NoItem]
    /\ lastGet = NoGet
    /\ calls = <<>>
    /\ OutsideFacadeInit

Tick ==
    /\ now < MaxTime
    /\ now' = now + 1
    /\ lastGet' = NoGet
    /\ UNCHANGED <<memoryCache, localStorage, calls>>
    /\ UNCHANGED outsideFacade

DoSet(k, d, ttl, writeOk) ==
    Op("set", k, CacheSet(memoryCache, localStorage, k, d, ttl, now, writeOk))

DoGet(k) ==
    /\ LET p == Peek(memoryCache, localStorage, k)
       IN  p # NullItem => p.accessCount < MaxAccess
    /\ Op("get", k, CacheGet(memoryCache, localStorage, k, now))

DoDelete(k) == Op("delete", k, CacheDelete(memoryCache, localStorage, k))

DoClear == Op("clear", Null, CacheClear(memoryCache, localStorage))

DoSweep == Op("sweep", Null, CleanupExpired(memoryCache, localStorage, now))

NextCache ==
    \/ Tick
    \/ \E k \in CacheKeys, ttl \in TTLs, writeOk \in BOOLEAN : \E d \in CacheData(k) :
          DoSet(k, d, ttl, writeOk)
    \/ \E k \in CacheKeys : DoGet(k)
    \/ \E k \in CacheKeys : DoDelete(k)
    \/ DoClear
    \/ DoSweep

SpecCache == InitCache /\ [][NextCache]_vars

\* -------------------------------------------------------------- APIFacade
RetryAttempts == 3      \* config.retryAttempts
RetryDelay == 1000      \* config.retryDelay, in milliseconds
CacheTTL == 1           \* config.cacheTTL in ticks (configure option)
MaxCalls == 2           \* getAirQualityData calls in one run

Calls == 1..MaxCalls

Undefined == "undefined"         \* a property the caller left out

\* toLowerCase on the words the queries are made of.
ToLowerCase(w) ==
    CASE w = "Rio" -> "rio"
      [] w = "RIO" -> "rio"
      [] w = "RJ"  -> "rj"
      [] w = "Rj"  -> "rj"
      [] w = "US"  -> "us"
      [] w = "BR"  -> "br"
      [] OTHER     -> w

\* The locationData objects the form can submit.
Queries ==
    { [city |-> "Rio", state |-> "RJ", country |-> Undefined],
      [city |-> "rio", state |-> "rj", country |-> "US"],
      [city |-> "Rio", state |-> "RJ", country |-> "BR"] }

\* A slip that builds the key from the country as given.
CountryAsGiven(locationData) == locationData.country

\* const { city, state, country = 'US' } = locationData
Country(locationData) ==
    IF locationData.country = Undefined THEN "US" ELSE locationData.country

GenerateCacheKey(city, state, country) ==
    "air_quality_" \o ToLowerCase(city) \o "_" \o ToLowerCase(state)
                   \o "_" \o ToLowerCase(country)

KeyOf(locationData) ==
    GenerateCacheKey(locationData.city, locationData.state, Country(locationData))

FacadeKeys == {KeyOf(q) : q \in Queries}

\* What the network can answer to one request.
GeoOutcomes == {"ok", "empty", "unavailable"}
AirOutcomes == {"ok", "nocurrent", "unavailable"}

NoError == [name |-> "none"]
NoLocation == [city |-> Undefined]    \* the call has not been made yet

\* GeocodingService.geocode, given the answer of the geocoding service to
\* the request of attempt n of a call.
Geocode(outcome, n) ==
    CASE outcome = "ok" ->
           [ok |-> TRUE, value |-> [lat |-> "lat", lon |-> "lon"]]
      [] outcome = "empty" ->
           [ok |-> FALSE,
            error |-> [name |-> "LocationNotFoundError", attempt |-> n]]
      [] OTHER ->
           [ok |-> FALSE, error |-> [name |-> "GeocodingError", attempt |-> n]]

\* AirQualityService.getAirQuality, likewise.
GetAirQuality(outcome, n) ==
    CASE outcome = "ok" ->
           [ok |-> TRUE, value |-> "airQualityData"]
      [] outcome = "nocurrent" ->
           [ok |-> FALSE,
            error |-> [name |-> "AirQualityDataError", attempt |-> n]]
      [] OTHER ->
           [ok |-> FALSE, error |-> [name |-> "AirQualityError", attempt |-> n]]

\* new APIError(message, type, originalError)
APIError(type, originalError) ==
    [name |-> "APIError", type |-> type, originalError |-> originalError]

Event(name) == [name |-> name]

IdleCall ==
    [pc |-> "idle", locationData |-> NoLocation, cacheKey |-> Null,
     cachedData |-> Absent, operationType |-> "none", attempt |-> 0,
     lastError |-> NoError, delays |-> <<>>, geoCalls |-> 0, airCalls |-> 0,
     events |-> <<>>, result |-> Absent, error |-> NoError,
     cacheChanged |-> FALSE]

\* The locals of _retryOperation go out of scope when the call settles.
Return(call) ==
    [call EXCEPT !.operationType = "none", !.attempt = 0, !.lastError = NoError]

\* A slip that publishes the wrapped cause instead of the error thrown.
RejectedPublishingCause(call, error) ==
    [Return(call) EXCEPT
       !.pc = "rejected",
       !.error = error,
       !.events = @ \o << [name |-> "api:error",
                           error |-> IF error.name = "APIError"
                                     THEN error.originalError ELSE error,
                           locationData |-> call.locationData],
                          Event("api:loading:end") >>]

\* The catch and finally blocks of getAirQualityData for a thrown error.
Rejected(call, error) ==
    [Return(call) EXCEPT
       !.pc = "rejected",
       !.error = error,
       !.events = @ \o << [name |-> "api:error", error |-> error,
                           locationData |-> call.locationData],
                          Event("api:loading:end") >>]

\* _retryOperation starting: attempt 1 of the operation is issued.
RetryOperation(call, operationType) ==
    [call EXCEPT
       !.operationType = operationType,
       !.attempt = 1,
       !.lastError = NoError,
       !.geoCalls = IF operationType = "geocoding" THEN @ + 1 ELSE @,
       !.airCalls = IF operationType = "air-quality" THEN @ + 1 ELSE @,
       !.pc = operationType]

\* A slip that waits the same delay after every failed attempt.
RetryCatchFlatDelay(call, error) ==
    LET c1 == [call EXCEPT !.lastError = error]
    IN  IF call.attempt = RetryAttempts
        THEN Rejected(c1, APIError(call.operationType, error))
        ELSE [c1 EXCEPT !.pc = "delay", !.delays = Append(@, RetryDelay)]

\* An off-by-one slip that gives up one attempt early.
RetryCatchOneShort(call, error) ==
    LET c1 == [call EXCEPT !.lastError = error]
    IN  IF call.attempt >= RetryAttempts - 1
        THEN Rejected(c1, APIError(call.operationType, error))
        ELSE [c1 EXCEPT !.pc = "delay",
                        !.delays = Append(@, RetryDelay * call.attempt)]

\* An off-by-one slip that makes one attempt more than retryAttempts.
RetryCatchOneMore(call, error) ==
    LET c1 == [call EXCEPT !.lastError = error]
    IN  IF call.attempt > RetryAttempts
        THEN Rejected(c1, APIError(call.operationType, error))
        ELSE [c1 EXCEPT !.pc = "delay",
                        !.delays = Append(@, RetryDelay * call.attempt)]

\* The catch block of _retryOperation: the last attempt leaves the loop and
\* throws the APIError, any other attempt waits retryDelay * attempt.
RetryCatch(call, error) ==
    LET c1 == [call EXCEPT !.lastError = error]
    IN  IF call.attempt = RetryAttempts
        THEN Rejected(c1, APIError(call.operationType, error))
        ELSE [c1 EXCEPT !.pc = "delay",
                        !.delays = Append(@, RetryDelay * call.attempt)]

\* A slip that restarts the pipeline at geocoding after any wait.
RetryNextFromGeocoding(call) ==
    [call EXCEPT !.attempt = @ + 1, !.geoCalls = @ + 1, !.pc = "geocoding"]

\* The timer of _delay fired: the loop issues the next attempt.
RetryNext(call) ==
    [call EXCEPT
       !.attempt = @ + 1,
       !.geoCalls = IF call.operationType = "geocoding" THEN @ + 1 ELSE @,
       !.airCalls = IF call.operationType = "air-quality" THEN @ + 1 ELSE @,
       !.pc = call.operationType]

\* A slip that goes to the network whatever the cache returned.
CacheCheckedIgnoringHit(call) == RetryOperation(call, "geocoding")

\* After `await this.cacheService.get(cacheKey)`: a hit publishes and
\* returns (through the finally block), a miss starts geocoding.
CacheChecked(call) ==
    IF call.cachedData # Absent
    THEN [call EXCEPT
            !.pc = "resolved",
            !.result = call.cachedData,
            !.events = @ \o << [name |-> "data:retrieved", source |-> "cache",
                                data |-> call.cachedData[1]],
                               Event("api:loading:end"),
                               Event("api:loading:end") >>]
    ELSE RetryOperation(call, "geocoding")

CompleteData(call, airQualityData, t) ==
    [location |-> [city |-> call.locationData.city,
                   state |-> call.locationData.state,
                   country |-> Country(call.locationData)],
     airQuality |-> airQualityData, timestamp |-> t, source |-> "api"]

\* After `await this.cacheService.set(...)`: the success path to the end.
CacheWritten(call) ==
    [Return(call) EXCEPT
       !.pc = "resolved",
       !.events = @ \o << [name |-> "data:cached", cacheKey |-> call.cacheKey],
                          [name |-> "api:success", data |-> call.result[1]],
                          Event("api:loading:end") >>]

Settled(call) == call.pc \in {"resolved", "rejected"}

Init ==
    /\ now = 0
    /\ memoryCache = <<>>
    /\ localStorage = [k \in FacadeKeys \cup {TestKey} |-> NoItem]
    /\ lastGet = NoGet
    /\ calls = [c \in Calls |-> IdleCall]
    /\ OutsideFacadeInit

\* getAirQualityData(locationData) up to its first await: loading-start is
\* published and cacheService.get runs.  Calls are started in slot order.
Start(c, q) ==
    /\ calls[c].pc = "idle"
    /\ c > 1 => calls[c - 1].pc # "idle"
    /\ LET r == CacheGet(memoryCache, localStorage, KeyOf(q), now)
       IN  /\ memoryCache' = r.mem
           /\ localStorage' = r.ls
           /\ calls' = [calls EXCEPT ![c] =
                  [@ EXCEPT !.pc = "cacheGet",
                            !.locationData = q,
                            !.cacheKey = KeyOf(q),
                            !.cachedData = r.ret,
                            !.cacheChanged = <<r.mem, r.ls>>
                                               # <<memoryCache, localStorage>>,
                            !.events = <<Event("api:loading:start")>>]]
    /\ UNCHANGED <<now, lastGet>>
    /\ UNCHANGED outsideFacade

\* The same when the storage tier is down: get returns from its catch block
\* (or serves the key from memory); an exception escaping it would land in
\* the catch block of getAirQualityData.
StartStorageDown(c, q) ==
    /\ calls[c].pc = "idle"
    /\ c > 1 => calls[c - 1].pc # "idle"
    /\ LET r == CacheGetStorageDown(memoryCache, localStorage, KeyOf(q), now)
           call == [calls[c] EXCEPT !.locationData = q,
                                    !.cacheKey = KeyOf(q),
                                    !.cacheChanged =
                                        <<r.mem, r.ls>>
                                          # <<memoryCache, localStorage>>,
                                    !.events = <<Event("api:loading:start")>>]
       IN  /\ memoryCache' = r.mem
           /\ localStorage' = r.ls
           /\ calls' = [calls EXCEPT ![c] =
                  IF r.threw
                  THEN Rejected(call, [name |-> "StorageError", attempt |-> 0])
                  ELSE [call EXCEPT
                          !.pc = IF r.caught THEN "cacheGetCaught"
                                 ELSE "cacheGet",
                          !.cachedData = r.ret]]
    /\ UNCHANGED <<now, lastGet>>
    /\ UNCHANGED outsideFacade

AfterCacheGet(c) ==
    /\ calls[c].pc \in {"cacheGet", "cacheGetCaught"}
    /\ calls' = [calls EXCEPT ![c] = CacheChecked(@)]
    /\ UNCHANGED <<now, memoryCache, localStorage, lastGet>>
    /\ UNCHANGED outsideFacade

GeocodeReturns(c, outcome) ==
    /\ calls[c].pc = "geocoding"
    /\ LET res == Geocode(outcome, calls[c].attempt)
       IN  calls' = [calls EXCEPT ![c] =
               IF res.ok THEN RetryOperation(@, "air-quality")
               ELSE RetryCatch(@, res.error)]
    /\ UNCHANGED <<now, memoryCache, localStorage, lastGet>>
    /\ UNCHANGED outsideFacade

DelayElapsed(c) ==
    /\ calls[c].pc = "delay"
    /\ calls' = [calls EXCEPT ![c] = RetryNext(@)]
    /\ UNCHANGED <<now, memoryCache, localStorage, lastGet>>
    /\ UNCHANGED outsideFacade

AirQualityReturns(c, outcome, writeOk) ==
    /\ calls[c].pc = "air-quality"
    /\ LET res == GetAirQuality(outcome, calls[c].attempt)
           completeData == CompleteData(calls[c], res.value, now)
           r == CacheSet(memoryCache, localStorage, calls[c].cacheKey,
                         completeData, CacheTTL, now, writeOk)
       IN  IF res.ok
           THEN /\ memoryCache' = r.mem
                /\ localStorage' = r.ls
                /\ calls' = [calls EXCEPT ![c] =
                       [@ EXCEPT !.pc = "cacheSet",
                                 !.result = Some(completeData)]]
           ELSE /\ calls' = [calls EXCEPT ![c] = RetryCatch(@, res.error)]
                /\ UNCHANGED <<memoryCache, localStorage>>
    /\ UNCHANGED <<now, lastGet>>
    /\ UNCHANGED outsideFacade

AfterCacheSet(c) ==
    /\ calls[c].pc = "cacheSet"
    /\ calls' = [calls EXCEPT ![c] = CacheWritten(@)]
    /\ UNCHANGED <<now, memoryCache, localStorage, lastGet>>
    /\ UNCHANGED outsideFacade

\* The setInterval timer of _startAutoCleanup.
Sweep ==
    LET r == CleanupExpired(memoryCache, localStorage, now)
    IN  /\ memoryCache' = r.mem
        /\ localStorage' = r.ls
        /\ UNCHANGED <<now, lastGet, calls>>
        /\ UNCHANGED outsideFacade

\* APIFacade.healthCheck: the two network probes change nothing here, then
\* cacheService.healthCheck runs.
HealthCheck(writeOk) ==
    LET r == CacheHealthCheck(memoryCache, localStorage, now, writeOk)
    IN  /\ memoryCache' = r.mem
        /\ localStorage' = r.ls
        /\ UNCHANGED <<now, lastGet, calls>>
        /\ UNCHANGED outsideFacade

Next ==
    \/ Tick
    \/ Sweep
    \/ \E writeOk \in BOOLEAN : HealthCheck(writeOk)
    \/ \E c \in Calls, q \in Queries : Start(c, q)
    \/ \E c \in Calls, q \in Queries : StartStorageDown(c, q)
    \/ \E c \in Calls : AfterCacheGet(c)
    \/ \E c \in Calls, outcome \in GeoOutcomes : GeocodeReturns(c, outcome)
    \/ \E c \in Calls : DelayElapsed(c)
    \/ \E c \in Calls, outcome \in AirOutcomes, writeOk \in BOOLEAN :
          AirQualityReturns(c, outcome, writeOk)
    \/ \E c \in Calls : AfterCacheSet(c)

Spec == Init /\ [][Next]_vars

\* ------------------------------------------------------ AirQualityService
MaxAQI == 301           \* the largest index value tried

\* The state of the cache and the facade.
facadeVars == <<now, memoryCache, localStorage, lastGet, calls>>

\* What the AirQualityService leaves alone.
outsideAQ == <<facadeVars, busVars, uiVars>>

\* An index value of the response: a number, or left out.
OptAQI == {Absent} \cup {Some(v) : v \in 0..MaxAQI}

\* JavaScript truthiness of an optional number: undefined, null and 0 are
\* falsy.
Truthy(x) == x # Absent /\ x[1] # 0

\* a || b || null
OrElseNull(a, b) == IF Truthy(a) THEN a ELSE IF Truthy(b) THEN b ELSE Absent

\* _classifyAQI(aqi) called without a type: `type = 'european'`.
AQITypes == {"european", "us", Undefined}

\* A slip that makes the upper bounds exclusive.
ClassifyAQIExclusive(aqi, type) ==
    IF ~Truthy(aqi) THEN [level |-> "unknown", color |-> "#gray"]
    ELSE LET v == aqi[1]
         IN  IF type \in {"european", Undefined}
             THEN IF v < 20 THEN [level |-> "good", color |-> "#00E400"]
                  ELSE IF v < 40 THEN [level |-> "fair", color |-> "#FFFF00"]
                  ELSE IF v < 60 THEN [level |-> "moderate", color |-> "#FF7E00"]
                  ELSE IF v < 80 THEN [level |-> "poor", color |-> "#FF0000"]
                  ELSE IF v < 100
                       THEN [level |-> "very-poor", color |-> "#8F3F97"]
                  ELSE [level |-> "extremely-poor", color |-> "#7E0023"]
             ELSE IF v < 50 THEN [level |-> "good", color |-> "#00E400"]
                  ELSE IF v < 100 THEN [level |-> "moderate", color |-> "#FFFF00"]
                  ELSE IF v < 150
                       THEN [level |-> "unhealthy-sensitive", color |-> "#FF7E00"]
                  ELSE IF v < 200 THEN [level |-> "unhealthy", color |-> "#FF0000"]
                  ELSE IF v < 300
                       THEN [level |-> "very-unhealthy", color |-> "#8F3F97"]
                  ELSE [level |-> "hazardous", color |-> "#7E0023"]

\* _classifyAQI(aqi, type = 'european'): level and color of the result (the
\* description is a fixed text per level).
ClassifyAQI(aqi, type) ==
    IF ~Truthy(aqi) THEN [level |-> "unknown", color |-> "#gray"]
    ELSE LET v == aqi[1]
         IN  IF type \in {"european", Undefined}
             THEN IF v <= 20 THEN [level |-> "good", color |-> "#00E400"]
                  ELSE IF v <= 40 THEN [level |-> "fair", color |-> "#FFFF00"]
                  ELSE IF v <= 60 THEN [level |-> "moderate", color |-> "#FF7E00"]
                  ELSE IF v <= 80 THEN [level |-> "poor", color |-> "#FF0000"]
                  ELSE IF v <= 100
                       THEN [level |-> "very-poor", color |-> "#8F3F97"]
                  ELSE [level |-> "extremely-poor", color |-> "#7E0023"]
             ELSE IF v <= 50 THEN [level |-> "good", color |-> "#00E400"]
                  ELSE IF v <= 100 THEN [level |-> "moderate", color |-> "#FFFF00"]
                  ELSE IF v <= 150
                       THEN [level |-> "unhealthy-sensitive", color |-> "#FF7E00"]
                  ELSE IF v <= 200 THEN [level |-> "unhealthy", color |-> "#FF0000"]
                  ELSE IF v <= 300
                       THEN [level |-> "very-unhealthy", color |-> "#8F3F97"]
                  ELSE [level |-> "hazardous", color |-> "#7E0023"]

\* The keys of pollutantMap, in the order Object.entries gives them.
PollutantKeys ==
    << "pm10", "pm2_5", "carbon_monoxide", "nitrogen_dioxide",
       "sulphur_dioxide", "ozone" >>

\* The names of pollutantMap (subscript digits written as plain digits).
PollutantName(key) ==
    CASE key = "pm10" -> "PM10"
      [] key = "pm2_5" -> "PM2.5"
      [] key = "carbon_monoxide" -> "CO"
      [] key = "nitrogen_dioxide" -> "NO2"
      [] key = "sulphur_dioxide" -> "SO2"
      [] key = "ozone" -> "O3"

\* safetyLimits of _findDominantPollutant
SafetyLimit(key) ==
    CASE key = "pm10" -> 50
      [] key = "pm2_5" -> 25
      [] key = "carbon_monoxide" -> 10000
      [] key = "nitrogen_dioxide" -> 40
      [] key = "sulphur_dioxide" -> 125
      [] key = "ozone" -> 120

\* thresholds[pollutant] || [25, 50, 100]
PollutantThresholds(key) ==
    CASE key = "pm10" -> <<20, 50, 100>>
      [] key = "pm2_5" -> <<10, 25, 50>>
      [] key = "ozone" -> <<60, 120, 180>>
      [] key = "nitrogen_dioxide" -> <<20, 40, 80>>
      [] OTHER -> <<25, 50, 100>>

CategorizePollutantLevel(key, value) ==
    LET limits == PollutantThresholds(key)
    IN  IF value <= limits[1] THEN "low"
        ELSE IF value <= limits[2] THEN "moderate"
        ELSE IF value <= limits[3] THEN "high"
        ELSE "very-high"

\* _processPollutants: the pollutants the reading has, in the order of
\* pollutantMap (name, value and level of each).
RECURSIVE ProcessPollutantsFrom(_, _)
ProcessPollutantsFrom(current, i) ==
    IF i > Len(PollutantKeys) THEN <<>>
    ELSE LET key == PollutantKeys[i]
         IN  IF current[key] # Absent
             THEN << [key |-> key, name |-> PollutantName(key),
                      value |-> current[key][1],
                      level |-> CategorizePollutantLevel(key, current[key][1])] >>
                  \o ProcessPollutantsFrom(current, i + 1)
             ELSE ProcessPollutantsFrom(current, i + 1)

ProcessPollutants(current) == ProcessPollutantsFrom(current, 1)

NoDominant == [key |-> Null]     \* dominant = null

\* A ratio value / limit, kept as the two numbers.
RatioGreater(r1, r2) == r1.num * r2.den > r2.num * r1.den

\* A slip that lets a later pollutant of equal ratio take over.
ExceedsHighestOrEqual(ratio, highestRatio) == ~RatioGreater(highestRatio, ratio)

\* ratio > highestRatio
ExceedsHighest(ratio, highestRatio) == RatioGreater(ratio, highestRatio)

\* The forEach of _findDominantPollutant, from position i on.
RECURSIVE DominantScan(_, _, _, _)
DominantScan(pollutants, i, dominant, highestRatio) ==
    IF i > Len(pollutants) THEN dominant
    ELSE LET pollutant == pollutants[i]
             limit == SafetyLimit(pollutant.key)
             ratio == [num |-> pollutant.value, den |-> limit]
         IN  IF pollutant.value > 0 /\ ExceedsHighest(ratio, highestRatio)
             THEN DominantScan(pollutants, i + 1,
                      [key |-> pollutant.key, name |-> pollutant.name,
                       value |-> pollutant.value, level |-> pollutant.level,
                       exceedsLimit |-> pollutant.value > limit,
                       ratio |-> ratio],
                      ratio)
             ELSE DominantScan(pollutants, i + 1, dominant, highestRatio)

FindDominantPollutant(pollutants) ==
    DominantScan(pollutants, 1, NoDominant, [num |-> 0, den |-> 1])

\* The `current` objects the air-quality API answers with: index values
\* without pollutants, and pollutant readings under one index value.
Currents ==
    [european_aqi : {Absent, Some(0), Some(15), Some(65), Some(125), Some(220)},
     us_aqi : {Absent, Some(0), Some(42)},
     pm10 : {Absent}, pm2_5 : {Absent}, carbon_monoxide : {Absent},
     nitrogen_dioxide : {Absent}, sulphur_dioxide : {Absent}, ozone : {Absent}]

Readings ==
    [european_aqi : {Absent, Some(50)}, us_aqi : {Absent, Some(160)},
     pm10 : {Absent, Some(0), Some(50), Some(100)},
     pm2_5 : {Absent, Some(0), Some(25), Some(50)},
     carbon_monoxide : {Absent, Some(0), Some(10000)},
     nitrogen_dioxide : {Absent, Some(40)},
     sulphur_dioxide : {Absent},
     ozone : {Absent, Some(120), Some(240)}]

\* The levels the recommendations table has an entry for.
RecommendationLevels ==
    {"good", "fair", "moderate", "poor", "very-poor", "extremely-poor"}

\* _getHealthRecommendation: the message set returned, named by its key in
\* the table: `recommendations[classification.level] || recommendations['good']`.
GetHealthRecommendation(classification) ==
    IF classification.level \in RecommendationLevels
    THEN classification.level ELSE "good"

\* _processAirQualityData: the aqi part of the result, the pollutants, the
\* dominant pollutant, the health recommendation, and the raw data.
ProcessAirQualityData(current) ==
    LET primaryAQI == OrElseNull(current.european_aqi, current.us_aqi)
        aqiType == IF Truthy(current.european_aqi) THEN "european" ELSE "us"
        pollutants == ProcessPollutants(current)
        classification == ClassifyAQI(primaryAQI, aqiType)
    IN  [aqi |-> [value |-> primaryAQI, type |-> aqiType,
                  classification |-> classification.level,
                  color |-> classification.color],
         pollutants |-> pollutants,
         dominantPollutant |-> FindDominantPollutant(pollutants),
         healthRecommendation |-> GetHealthRecommendation(classification),
         raw |-> current]

\* The record of a _classifyAQI call.
Classified(aqi, type) ==
    [aqi |-> aqi, type |-> type, level |-> ClassifyAQI(aqi, type).level]

\* A direct call of _classifyAQI.
Classify(aqi, type) ==
    /\ classified' = Classified(aqi, type)
    /\ UNCHANGED processedData
    /\ UNCHANGED outsideAQ

\* getAirQuality resolving: the response had a `current` object, which
\* _processAirQualityData turned into the result.
GetAirQualityResolves(current) ==
    /\ processedData' = ProcessAirQualityData(current)
    /\ classified' = Classified(processedData'.aqi.value, processedData'.aqi.type)
    /\ UNCHANGED outsideAQ

NextAQ ==
    \/ \E aqi \in OptAQI, type \in AQITypes : Classify(aqi, type)
    \/ \E current \in Currents : GetAirQualityResolves(current)

SpecAQ == Init /\ [][NextAQ]_vars

\* getAirQuality on readings that carry pollutants.
NextReading == \E current \in Readings : GetAirQualityResolves(current)

SpecReading == Init /\ [][NextReading]_vars

\* ----------------------------------------------------------- EventManager
MaxSubscribes == 3      \* subscribe calls in one run
MaxDepth == 1           \* publish calls nested inside one publish

\* What the EventManager leaves alone.
outsideBus == <<facadeVars, aqVars, uiVars>>

\* What a callback does when it is invoked: return, throw, publish the same
\* event again (unless the publish it runs in is nested MaxDepth deep),
\* return a promise that is fulfilled later, or one that is rejected later.
Callbacks == {"plain", "throws", "republish", "slow", "slowFails"}

Priorities == {0, 1}            \* options.priority (0 also when left out)
GivenIds == {Undefined, "a"}    \* options.id

\* _generateId(): a fresh id at every call.
GenerateId(uid) == "listener_" \o ToString(uid)

\* The listener object of subscribe call number uid.
NewListener(uid, callback, once, priority, id) ==
    [uid |-> uid, callback |-> callback, once |-> once, priority |-> priority,
     id |-> IF id # Undefined THEN id ELSE GenerateId(uid)]

\* A slip that puts a listener before those of its own priority.
InsertBeforeEquals(sorted, l) ==
    LET before == SelectSeq(sorted, LAMBDA x : x.priority > l.priority)
        after  == SelectSeq(sorted, LAMBDA x : x.priority <= l.priority)
    IN  before \o <<l>> \o after

\* One step of the stable sort by (b.priority - a.priority): the listener
\* goes behind every listener whose priority is not lower than its own.
Insert(sorted, l) ==
    LET before == SelectSeq(sorted, LAMBDA x : x.priority >= l.priority)
        after  == SelectSeq(sorted, LAMBDA x : x.priority < l.priority)
    IN  before \o <<l>> \o after

\* listeners.sort((a, b) => b.priority - a.priority)
RECURSIVE SortByPriority(_)
SortByPriority(ls) ==
    IF ls = <<>> THEN <<>>
    ELSE Insert(SortByPriority(SubSeq(ls, 1, Len(ls) - 1)), ls[Len(ls)])

\* unsubscribe(event, listenerId)
UnsubscribeId(ls, listenerId) == SelectSeq(ls, LAMBDA l : l.id # listenerId)

\* What listener.callback(data, event) returns.
CallbackResult(callback) ==
    IF callback \in {"slow", "slowFails"} THEN "Promise" ELSE "undefined"

\* A slip that never waits for a callback's promise.
InstanceOfPromiseNever(result) == FALSE

\* result instanceof Promise
InstanceOfPromise(result) == result = "Promise"

\* A slip that leaves the callback outside the try block.
ListenerThrewUncaught(goOn, abort) == abort

\* try { listener.callback(...) ... } catch (error) { console.error(...) }
\* inside forEach: the loop goes on with the next listener.
ListenerThrew(goOn, abort) == goOn

\* The listener a "subscribes" handler registers: subscribe(event, plain,
\* { id: 'late' }).  It is not one of the counted subscribe calls: uid 0.
LateListener ==
    [uid |-> 0, callback |-> "plain", once |-> FALSE, priority |-> 0,
     id |-> "late"]

\* What a "subscribes" handler does: it registers LateListener unless a
\* listener with that id is registered.
SubscribeLate(ls) ==
    IF \E i \in DOMAIN ls : ls[i].id = LateListener.id THEN ls
    ELSE SortByPriority(Append(ls, LateListener))

\* A slip that walks the registered array itself.
ListenersToCallLive(registered, cur) == cur

\* const listeners = [...this.listeners[event]]: the forEach walks the copy
\* made when publish started, whatever the registry has become since.
ListenersToCall(registered, cur) == registered

\* publish(event, data): the forEach over the copy of the listeners, from
\* position i on.  cur is this.listeners[event], log the invocations so far.
\* A "subscribes" handler subscribes a listener, an "unsubscribes" handler
\* calls unsubscribe(event, 'a').
RECURSIVE PublishFrom(_, _, _, _, _)
PublishFrom(snapshot, i, cur, log, depth) ==
    IF i > Len(ListenersToCall(snapshot, cur))
    THEN [listeners |-> cur, log |-> log, threw |-> FALSE]
    ELSE LET l == ListenersToCall(snapshot, cur)[i]
             log1 == Append(log, [uid |-> l.uid, depth |-> depth])
             called == IF l.callback = "republish" /\ depth < MaxDepth
                       THEN PublishFrom(cur, 1, cur, log1, depth + 1)
                       ELSE IF l.callback = "subscribes"
                       THEN [listeners |-> SubscribeLate(cur), log |-> log1,
                             threw |-> FALSE]
                       ELSE IF l.callback = "unsubscribes"
                       THEN [listeners |-> UnsubscribeId(cur, "a"),
                             log |-> log1, threw |-> FALSE]
                       ELSE [listeners |-> cur, log |-> log1, threw |-> FALSE]
             thrown == l.callback = "throws" \/ called.threw
             cur1 == IF l.once THEN UnsubscribeId(called.listeners, l.id)
                     ELSE called.listeners
         IN  IF thrown
             THEN ListenerThrew(
                      PublishFrom(snapshot, i + 1, called.listeners,
                                  called.log, depth),
                      [listeners |-> called.listeners, log |-> called.log,
                       threw |-> TRUE])
             ELSE PublishFrom(snapshot, i + 1, cur1, called.log, depth)

Publish(ls) == PublishFrom(ls, 1, ls, <<>>, 0)

\* publishAsync(event, data): the synchronous part of listeners.map(async
\* listener => ...): every wrapper runs up to its await.
RECURSIVE PublishAsyncFrom(_, _, _, _, _, _)
PublishAsyncFrom(snapshot, i, cur, log, wrappers, running) ==
    IF i > Len(snapshot)
    THEN [listeners |-> cur, log |-> log, wrappers |-> wrappers,
          running |-> running]
    ELSE LET l == snapshot[i]
             log1 == Append(log, [uid |-> l.uid, depth |-> 0])
             called == IF l.callback = "republish" /\ 0 < MaxDepth
                       THEN PublishFrom(cur, 1, cur, log1, 1)
                       ELSE [listeners |-> cur, log |-> log1, threw |-> FALSE]
             result == CallbackResult(l.callback)
             running1 == IF result = "Promise" THEN running \cup {l}
                         ELSE running
         IN  IF l.callback = "throws" \/ called.threw
             THEN PublishAsyncFrom(snapshot, i + 1, called.listeners,
                                   called.log, wrappers, running1)
             ELSE IF InstanceOfPromise(result)
             THEN PublishAsyncFrom(snapshot, i + 1, called.listeners,
                                   called.log, wrappers \cup {l}, running1)
             ELSE PublishAsyncFrom(snapshot, i + 1,
                      IF l.once THEN UnsubscribeId(called.listeners, l.id)
                      ELSE called.listeners,
                      called.log, wrappers, running1)

\* A slip that lets a rejected await out of the wrapper.
AwaitRejectedUncaught(ap, l) ==
    [ap EXCEPT !.status = "rejected", !.wrappers = @ \ {l}]

\* The catch block of a wrapper whose await threw: the wrapper is fulfilled.
AwaitRejected(ap, l) == [ap EXCEPT !.wrappers = @ \ {l}]

\* subscribe(event, callback, options)
Subscribe(callback, once, priority, id) ==
    /\ Len(handles) < MaxSubscribes
    /\ LET listener == NewListener(Len(handles) + 1, callback, once,
                                   priority, id)
       IN  /\ listeners' = SortByPriority(Append(listeners, listener))
           /\ handles' = Append(handles, listener.id)
    /\ invoked' = <<>>
    /\ publishOutcome' = "none"
    /\ UNCHANGED asyncPublish
    /\ UNCHANGED outsideBus

\* A call of the function that subscribe call number h returned.
CallUnsubscribe(h) ==
    /\ listeners' = UnsubscribeId(listeners, handles[h])
    /\ invoked' = <<>>
    /\ publishOutcome' = "none"
    /\ UNCHANGED <<handles, asyncPublish>>
    /\ UNCHANGED outsideBus

DoPublish ==
    /\ LET r == Publish(listeners)
       IN  /\ listeners' = r.listeners
           /\ invoked' = r.log
           /\ publishOutcome' = IF r.threw THEN "threw" ELSE "returned"
    /\ UNCHANGED <<handles, asyncPublish>>
    /\ UNCHANGED outsideBus

\* publishAsync up to `await Promise.all(promises)`; with no listener it
\* returns at once.
DoPublishAsync ==
    /\ asyncPublish.status # "pending"
    /\ LET r == PublishAsyncFrom(listeners, 1, listeners, <<>>, {}, {})
       IN  /\ listeners' = r.listeners
           /\ invoked' = r.log
           /\ asyncPublish' =
                 IF listeners = <<>>
                 THEN [NoAsyncPublish EXCEPT !.status = "resolved"]
                 ELSE [status |-> "pending", wrappers |-> r.wrappers,
                       running |-> r.running]
    /\ publishOutcome' = "none"
    /\ UNCHANGED handles
    /\ UNCHANGED outsideBus

\* The promise a callback returned settles; the wrapper awaiting it goes on.
HandlerSettles(l) ==
    /\ l \in asyncPublish.running
    /\ LET ap == [asyncPublish EXCEPT !.running = @ \ {l}]
       IN  IF l \notin asyncPublish.wrappers
           THEN asyncPublish' = ap /\ UNCHANGED listeners
           ELSE IF l.callback = "slowFails"
           THEN asyncPublish' = AwaitRejected(ap, l) /\ UNCHANGED listeners
           ELSE /\ asyncPublish' = [ap EXCEPT !.wrappers = @ \ {l}]
                /\ listeners' = IF l.once THEN UnsubscribeId(listeners, l.id)
                                ELSE listeners
    /\ invoked' = <<>>
    /\ publishOutcome' = "none"
    /\ UNCHANGED handles
    /\ UNCHANGED outsideBus

\* Promise.all(promises) is fulfilled once every wrapper is.
AsyncResolves ==
    /\ asyncPublish.status = "pending"
    /\ asyncPublish.wrappers = {}
    /\ asyncPublish' = [asyncPublish EXCEPT !.status = "resolved"]
    /\ invoked' = <<>>
    /\ publishOutcome' = "none"
    /\ UNCHANGED <<listeners, handles>>
    /\ UNCHANGED outsideBus

NextBus ==
    \/ \E callback \in Callbacks, once \in BOOLEAN, priority \in Priorities,
          id \in GivenIds : Subscribe(callback, once, priority, id)
    \/ \E h \in DOMAIN handles : CallUnsubscribe(h)
    \/ DoPublish
    \/ DoPublishAsync
    \/ \E l \in asyncPublish.running : HandlerSettles(l)
    \/ AsyncResolves

SpecBus == Init /\ [][NextBus]_vars

\* ------------------------------------------------- claims on CacheService
\* The entries the tiers hold for key k.
TierItems(k) ==
    {memoryCache[i] : i \in {j \in DOMAIN memoryCache : memoryCache[j].key = k}}
    \cup (IF localStorage[k] # NoItem THEN {JSONparse(localStorage[k])} ELSE {})

\* C7: in every reachable state the number of in-memory entries is at most
\* the capacity maxMemoryItems.
C7_SizeWithinCapacity == Len(memoryCache) <= MaxMemoryItems

\* C8: a set that inserts a new key into a cache holding exactly
\* maxMemoryItems entries removes exactly one stored entry, the one with the
\* smallest lastAccessed, and leaves the size at maxMemoryItems.
C8_EvictsExactlyTheOldest ==
    [][\A k \in CacheKeys, ttl \in TTLs, writeOk \in BOOLEAN :
         \A d \in CacheData(k) :
           (/\ DoSet(k, d, ttl, writeOk)
            /\ Len(memoryCache) = MaxMemoryItems
            /\ ~MemHas(memoryCache, k))
           => (/\ Len(memoryCache') = MaxMemoryItems
               /\ \E i \in DOMAIN memoryCache :
                     /\ MemKeys(memoryCache') =
                          (MemKeys(memoryCache) \ {memoryCache[i].key}) \cup {k}
                     /\ \A j \in DOMAIN memoryCache :
                          memoryCache[i].lastAccessed
                              <= memoryCache[j].lastAccessed)]_vars

\* C9: a set whose key is already present in a full cache overwrites that
\* key's entry and removes no other entry: the set of keys is unchanged.
C9_OverwriteEvictsNothing ==
    [][\A k \in CacheKeys, ttl \in TTLs, writeOk \in BOOLEAN :
         \A d \in CacheData(k) :
           (/\ DoSet(k, d, ttl, writeOk)
            /\ Len(memoryCache) >= MaxMemoryItems
            /\ MemHas(memoryCache, k))
           => MemKeys(memoryCache') = MemKeys(memoryCache)]_vars

\* C10: a get for a key whose entry is expired (now > expiresAt) returns
\* null and leaves the key in no tier; a get of a key held by no tier
\* returns null and leaves it absent; a get that returns a value returns the
\* data of an entry that is not expired.
C10_ExpiredIsAbsent ==
    [][\A k \in CacheKeys :
         DoGet(k) =>
           /\ (\A it \in TierItems(k) : now > it.expiresAt)
                => /\ lastGet'.ret = Absent
                   /\ ~MemHas(memoryCache', k)
                   /\ localStorage'[k] = NoItem
           /\ lastGet'.ret # Absent
                => \E it \in TierItems(k) :
                      now <= it.expiresAt /\ lastGet'.ret = Some(it.data)]_vars

\* A get found an item for its key and reported it absent: the item was
\* expired, and the get removed it.
C10_Witness ==
    /\ lastGet.key # Null
    /\ lastGet.had
    /\ lastGet.ret = Absent
    /\ ~MemHas(memoryCache, lastGet.key)

\* ---------------------------------------------------- claims on APIFacade
\* How many times a call has published the event of this name.
Published(call, name) ==
    Cardinality({i \in DOMAIN call.events : call.events[i].name = name})

\* The error a rejection goes back to.
Underlying(error) ==
    IF error.name = "APIError" THEN error.originalError ELSE error

\* A call that went to the network once for each service and succeeded.
MissSucceeded(call) ==
    /\ call.pc \in {"cacheSet", "resolved"}
    /\ call.cachedData = Absent
    /\ call.geoCalls = 1
    /\ call.airCalls = 1

\* C1: on every path each getAirQualityData call publishes
\* 'api:loading:end' exactly once.
C1_LoadingEndOnce ==
    \A c \in Calls :
        Published(calls[c], "api:loading:end")
            = (IF Settled(calls[c]) THEN 1 ELSE 0)

\* C2: when the geocoding service answers the first attempt with an empty
\* array, the call makes no further geocoding attempt, waits no backoff
\* delay, makes no air-quality call and rejects with the
\* LocationNotFoundError itself.
C2_LocationNotFoundNotRetried ==
    [][\A c \in Calls :
         (GeocodeReturns(c, "empty") /\ calls[c].attempt = 1)
         => /\ calls'[c].pc = "rejected"
            /\ calls'[c].error.name = "LocationNotFoundError"
            /\ calls'[c].geoCalls = 1
            /\ calls'[c].delays = <<>>
            /\ calls'[c].airCalls = 0]_vars

\* C3: a call whose geocoding attempts fail with GeocodingError is rejected
\* by the failure of attempt number retryAttempts and by no earlier one; it
\* has then made exactly retryAttempts geocoding calls, and it rejects with
\* an APIError of type 'geocoding' whose originalError is the error of that
\* last attempt.
C3_RetryCeiling ==
    /\ [](\A c \in Calls :
            /\ calls[c].geoCalls <= RetryAttempts
            /\ (/\ calls[c].pc = "rejected"
                /\ calls[c].airCalls = 0
                /\ Underlying(calls[c].error).name = "GeocodingError")
               => /\ calls[c].geoCalls = RetryAttempts
                  /\ calls[c].error
                       = [name |-> "APIError", type |-> "geocoding",
                          originalError |->
                             [name |-> "GeocodingError",
                              attempt |-> RetryAttempts]])
    /\ [][\A c \in Calls :
            GeocodeReturns(c, "unavailable")
            => (calls'[c].pc = "rejected"
                   <=> calls[c].geoCalls = RetryAttempts)]_vars

C3_Witness ==
    \E c \in Calls :
        /\ calls[c].pc = "rejected"
        /\ calls[c].error.name = "APIError"
        /\ calls[c].error.type = "geocoding"
        /\ calls[c].error.originalError.name = "GeocodingError"
        /\ calls[c].delays = <<RetryDelay, 2 * RetryDelay>>

\* C4: when a tier of the cache holds an unexpired entry for the key of the
\* query as the call checks the cache, the call gets that entry's data, and a
\* call that got data from the cache publishes data:retrieved with source
\* 'cache', resolves with that data and calls neither service.
C4_CacheHitNoNetwork ==
    /\ [](\A c \in Calls :
            (calls[c].cachedData # Absent /\ calls[c].pc # "cacheGet")
            => /\ calls[c].pc = "resolved"
               /\ calls[c].result = calls[c].cachedData
               /\ calls[c].geoCalls = 0
               /\ calls[c].airCalls = 0
               /\ \E i \in DOMAIN calls[c].events :
                     calls[c].events[i]
                        = [name |-> "data:retrieved", source |-> "cache",
                           data |-> calls[c].cachedData[1]])
    /\ [][\A c \in Calls, q \in Queries :
            (/\ Start(c, q)
             /\ \E it \in TierItems(KeyOf(q)) : now <= it.expiresAt)
            => \E it \in TierItems(KeyOf(q)) :
                  /\ now <= it.expiresAt
                  /\ calls'[c].cachedData = Some(it.data)]_vars

C4_Witness ==
    \E c \in Calls :
        /\ calls[c].pc = "resolved"
        /\ calls[c].cachedData # Absent
        /\ calls[c].result = calls[c].cachedData

\* C5: a call that succeeds on a miss stores its result under the cache key
\* with expiresAt = now + cacheTTL; a call with the identical query that
\* starts no later than that expiry is served from the cache, and the two
\* calls together have made 2 network calls.
C5_SecondCallServedFromCache ==
    /\ [][\A c \in Calls, writeOk \in BOOLEAN :
            AirQualityReturns(c, "ok", writeOk)
            => /\ MemHas(memoryCache', calls[c].cacheKey)
               /\ MemGet(memoryCache', calls[c].cacheKey).data
                     = calls'[c].result[1]
               /\ MemGet(memoryCache', calls[c].cacheKey).expiresAt
                     = now + CacheTTL]_vars
    /\ [][\A c1, c2 \in Calls, q \in Queries :
            (/\ Start(c2, q)
             /\ c1 # c2
             /\ MissSucceeded(calls[c1])
             /\ calls[c1].locationData = q
             /\ now <= calls[c1].result[1].timestamp + CacheTTL)
            => calls'[c2].cachedData # Absent]_vars
    /\ [](\A c1, c2 \in Calls :
            (/\ MissSucceeded(calls[c1])
             /\ calls[c2].locationData = calls[c1].locationData
             /\ calls[c2].cachedData # Absent)
            => calls[c1].geoCalls + calls[c1].airCalls
                 + calls[c2].geoCalls + calls[c2].airCalls = 2)

C5_Witness ==
    \E c1, c2 \in Calls :
        /\ MissSucceeded(calls[c1])
        /\ calls[c1].pc = "resolved"
        /\ calls[c2].pc = "resolved"
        /\ calls[c2].locationData = calls[c1].locationData
        /\ calls[c2].result = calls[c1].result
        /\ calls[c2].cachedData # Absent

\* C6: a call that rejects has published 'api:error' carrying the error it
\* rejects with and the locationData it was called with; a call that has not
\* rejected has published no 'api:error'.
C6_ErrorEventOnReject ==
    \A c \in Calls :
        IF calls[c].pc = "rejected"
        THEN \E i \in DOMAIN calls[c].events :
                calls[c].events[i]
                   = [name |-> "api:error", error |-> calls[c].error,
                      locationData |-> calls[c].locationData]
        ELSE Published(calls[c], "api:error") = 0

C6_Witness ==
    \E c \in Calls :
        /\ calls[c].pc = "rejected"
        /\ calls[c].error.name = "APIError"
        /\ Published(calls[c], "api:error") = 1

\* C11: no cache operation throws or rejects to its caller.  With the
\* storage tier down, get, delete and clear return normally from every
\* reachable cache state, and a get that had to read the storage returns
\* null; a call whose cache read failed goes on to geocoding as on a miss,
\* and a call whose cache write failed in the storage tier keeps the entry in
\* memory and resolves.
C11_CacheNeverFailsCaller ==
    /\ [](\A k \in FacadeKeys :
            /\ ~CacheGetStorageDown(memoryCache, localStorage, k, now).threw
            /\ ~CacheDeleteStorageDown(memoryCache, localStorage, k).threw
            /\ ~CacheClearStorageDown(memoryCache, localStorage).threw
            /\ ~MemHas(memoryCache, k)
                 => CacheGetStorageDown(memoryCache, localStorage, k, now).ret
                      = Absent)
    /\ [](\A c \in Calls : Underlying(calls[c].error).name # "StorageError")
    /\ [][\A c \in Calls, q \in Queries :
            StartStorageDown(c, q)
            => /\ calls'[c].pc \in {"cacheGet", "cacheGetCaught"}
               /\ ~MemHas(memoryCache, KeyOf(q))
                    => /\ calls'[c].pc = "cacheGetCaught"
                       /\ calls'[c].cachedData = Absent]_vars
    /\ [][\A c \in Calls :
            (AfterCacheGet(c) /\ calls[c].pc = "cacheGetCaught")
            => /\ calls'[c].pc = "geocoding"
               /\ calls'[c].geoCalls = 1]_vars
    /\ [][\A c \in Calls :
            AirQualityReturns(c, "ok", FALSE)
            => /\ calls'[c].pc = "cacheSet"
               /\ MemHas(memoryCache', calls[c].cacheKey)
               /\ localStorage' = localStorage]_vars
    /\ [][\A c \in Calls :
            AfterCacheSet(c) => calls'[c].pc = "resolved"]_vars

\* The cache read of a call failed in the storage tier and came back to the
\* call as a miss.
C11_Witness ==
    \E c \in Calls :
        /\ calls[c].pc = "cacheGetCaught"
        /\ calls[c].cachedData = Absent
        /\ calls[c].error = NoError

\* The spellings of one word that differ only in letter case.
CaseVariants ==
    { {"Rio", "rio", "RIO"}, {"RJ", "rj", "Rj"}, {"US", "us"}, {"BR", "br"} }

SameWord(a, b) == a = b \/ \E v \in CaseVariants : a \in v /\ b \in v

\* The queries a user can type for one place.
TypedQueries ==
    [city : {"Rio", "rio", "RIO"}, state : {"RJ", "rj", "Rj"},
     country : {Undefined, "US", "us", "BR", "br"}]

\* Two queries that differ only in letter case, or in the country being
\* left out in one and given as "US" in the other.
SameQuery(q1, q2) ==
    /\ SameWord(q1.city, q2.city)
    /\ SameWord(q1.state, q2.state)
    /\ SameWord(IF q1.country = Undefined THEN "US" ELSE q1.country,
                IF q2.country = Undefined THEN "US" ELSE q2.country)

\* The key function on every pair of typed queries.
SameQuerySameKey ==
    \A q1, q2 \in TypedQueries : SameQuery(q1, q2) => KeyOf(q1) = KeyOf(q2)

EuropeanLevels ==
    << [upTo |-> 20, level |-> "good"], [upTo |-> 40, level |-> "fair"],
       [upTo |-> 60, level |-> "moderate"], [upTo |-> 80, level |-> "poor"],
       [upTo |-> 100, level |-> "very-poor"],
       [upTo |-> MaxAQI + 1, level |-> "extremely-poor"] >>

USLevelsAsClaimed ==
    << [upTo |-> 50, level |-> "good"], [upTo |-> 100, level |-> "moderate"],
       [upTo |-> 150, level |-> "unhealthy-for-sensitive"],
       [upTo |-> 200, level |-> "unhealthy"],
       [upTo |-> 300, level |-> "very-unhealthy"],
       [upTo |-> MaxAQI + 1, level |-> "hazardous"] >>

USLevels ==
    [USLevelsAsClaimed EXCEPT ![3].level = "unhealthy-sensitive"]

\* The level of the first bound, in order, that the value does not exceed.
LevelIn(levels, v) ==
    levels[CHOOSE i \in DOMAIN levels :
              /\ v <= levels[i].upTo
              /\ \A j \in DOMAIN levels : j < i => v > levels[j].upTo].level

LevelNames(levels) == {levels[i].level : i \in DOMAIN levels}

IsEuropean(type) == type \in {"european", Undefined}

\* C18: the classification of a non-null AQI value, 0 included, is one of
\* the six levels of its scale, never 'unknown'.
C18_UnknownOnlyForNull ==
    (classified # NoClassification /\ classified.aqi # Absent)
    => classified.level
          \in LevelNames(IF IsEuropean(classified.type)
                         THEN EuropeanLevels ELSE USLevels)

\* C19 as stated: for a value greater than 0 the level is that of the first
\* inclusive upper bound the value does not exceed, the third US level being
\* named 'unhealthy-for-sensitive'.
C19_ThresholdsAsClaimed ==
    (/\ classified # NoClassification
     /\ classified.aqi # Absent
     /\ classified.aqi[1] > 0)
    => classified.level
          = LevelIn(IF IsEuropean(classified.type)
                    THEN EuropeanLevels ELSE USLevelsAsClaimed,
                    classified.aqi[1])

\* C19 as amended: the same, the third US level being named
\* 'unhealthy-sensitive'.
C19_Thresholds ==
    (/\ classified # NoClassification
     /\ classified.aqi # Absent
     /\ classified.aqi[1] > 0)
    => classified.level
          = LevelIn(IF IsEuropean(classified.type)
                    THEN EuropeanLevels ELSE USLevels,
                    classified.aqi[1])

\* A value on an upper bound was classified into the level of that bound.
C19_Witness ==
    /\ classified # NoClassification
    /\ classified.aqi = Some(150)
    /\ classified.type = "us"
    /\ classified.level = "unhealthy-sensitive"

\* C20: a response carrying european_aqi = 65 is classified 'moderate'.
C20_Scenario65Moderate ==
    (processedData # NoData /\ processedData.raw.european_aqi = Some(65))
    => processedData.aqi.classification = "moderate"

\* ------------------------------------------------- claims on EventManager
\* The invocations a publish made itself, not those of a publish nested in it.
TopLevel(log) == SelectSeq(log, LAMBDA e : e.depth = 0)

\* How many times the log has the listener of subscribe call number uid.
Invocations(log, uid) == Cardinality({k \in DOMAIN log : log[k].uid = uid})

Registered(ls, uid) == \E i \in DOMAIN ls : ls[i].uid = uid

PriorityOf(ls, uid) == ls[CHOOSE i \in DOMAIN ls : ls[i].uid = uid].priority

CallbackOf(ls, uid) == ls[CHOOSE i \in DOMAIN ls : ls[i].uid = uid].callback

\* C13: a publish invokes a listener registered with once: true no more
\* than once, publishes nested in it included, and leaves it out of the
\* registry.
C13_OnceRemovedBeforeReentry ==
    [][DoPublish =>
         \A i \in DOMAIN listeners :
            listeners[i].once
            => /\ Invocations(invoked', listeners[i].uid) <= 1
               /\ ~Registered(listeners', listeners[i].uid)]_vars

\* C14: publish invokes every registered handler once, a handler of higher
\* priority before one of lower priority, and of two handlers of equal
\* priority the one subscribed first.
C14_PriorityThenSubscriptionOrder ==
    [][DoPublish =>
         LET t == TopLevel(invoked')
         IN  /\ Len(t) = Len(listeners)
             /\ \A i \in DOMAIN listeners :
                   Invocations(t, listeners[i].uid) = 1
             /\ \A i, j \in DOMAIN t :
                   i < j
                   => \/ PriorityOf(listeners, t[i].uid)
                           > PriorityOf(listeners, t[j].uid)
                      \/ /\ PriorityOf(listeners, t[i].uid)
                              = PriorityOf(listeners, t[j].uid)
                         /\ t[i].uid < t[j].uid]_vars

\* The third subscriber, of higher priority, was invoked before the first
\* two, and those two, of equal priority, in the order of their subscribing.
C14_Witness ==
    /\ publishOutcome = "returned"
    /\ Len(listeners) = 3
    /\ [k \in DOMAIN invoked |-> invoked[k].uid] = <<3, 1, 2>>
    /\ [i \in DOMAIN listeners |-> listeners[i].priority] = <<1, 0, 0>>

\* C15: publish returns normally whatever its handlers do, and has invoked
\* every registered handler, those that follow a throwing one included.
C15_ThrowingHandlerIsContained ==
    [][DoPublish =>
         /\ publishOutcome' = "returned"
         /\ \A i \in DOMAIN listeners :
               \E k \in DOMAIN invoked' :
                  invoked'[k] = [uid |-> listeners[i].uid, depth |-> 0]]_vars

\* A publish invoked a throwing handler, then the handler after it, and
\* returned.
C15_Witness ==
    /\ publishOutcome = "returned"
    /\ Len(invoked) >= 2
    /\ Registered(listeners, invoked[1].uid)
    /\ CallbackOf(listeners, invoked[1].uid) = "throws"
    /\ invoked[2].depth = 0

\* C16: the function returned by subscribe call number h removes the
\* listener that call created and no other.
C16_UnsubscribeRemovesExactlyOne ==
    [][\A h \in DOMAIN handles :
          CallUnsubscribe(h)
          => listeners' = SelectSeq(listeners, LAMBDA l : l.uid # h)]_vars

C21_PrimaryAQIPreference ==
    processedData # NoData
    => LET raw == processedData.raw
           aqi == processedData.aqi
       IN  /\ raw.european_aqi # Absent
                => aqi.value = raw.european_aqi /\ aqi.type = "european"
           /\ (raw.european_aqi = Absent /\ raw.us_aqi # Absent)
                => aqi.value = raw.us_aqi /\ aqi.type = "us"
           /\ aqi.value = Absent
                => raw.european_aqi = Absent /\ raw.us_aqi = Absent

\* The pollutant at position i has the highest ratio of the reading, and is
\* the first to have it.
FirstOfHighestRatio(pollutants, i) ==
    /\ \A j \in DOMAIN pollutants :
          pollutants[i].value * SafetyLimit(pollutants[j].key)
             >= pollutants[j].value * SafetyLimit(pollutants[i].key)
    /\ \A j \in DOMAIN pollutants :
          j < i => pollutants[i].value * SafetyLimit(pollutants[j].key)
                      > pollutants[j].value * SafetyLimit(pollutants[i].key)

\* C22 as stated: the dominant pollutant is the first pollutant of the
\* highest value/safetyLimit ratio among all pollutants of the reading; it
\* is null only when the reading has no known pollutant.
C22_DominantAmongAllPresent ==
    processedData # NoData
    => LET pollutants == processedData.pollutants
           dominant == processedData.dominantPollutant
       IN  IF pollutants = <<>> THEN dominant = NoDominant
           ELSE \E i \in DOMAIN pollutants :
                   /\ FirstOfHighestRatio(pollutants, i)
                   /\ dominant.key = pollutants[i].key
                   /\ dominant.value = pollutants[i].value

\* C22 as amended: the same among the pollutants whose value is greater
\* than 0; null only when the reading has no such pollutant.
C22_DominantAmongPositive ==
    processedData # NoData
    => LET positive == SelectSeq(processedData.pollutants,
                                 LAMBDA pollutant : pollutant.value > 0)
           dominant == processedData.dominantPollutant
       IN  IF positive = <<>> THEN dominant = NoDominant
           ELSE \E i \in DOMAIN positive :
                   /\ FirstOfHighestRatio(positive, i)
                   /\ dominant.key = positive[i].key
                   /\ dominant.value = positive[i].value
                   /\ dominant.ratio = [num |-> positive[i].value,
                                        den |-> SafetyLimit(positive[i].key)]

\* Three pollutants stand at twice their limits; the first of them in the
\* order of the map was chosen, past a pollutant of value 0.
C22_Witness ==
    /\ processedData # NoData
    /\ processedData.raw.pm10 = Some(100)
    /\ processedData.raw.pm2_5 = Some(50)
    /\ processedData.raw.carbon_monoxide = Some(0)
    /\ processedData.raw.ozone = Some(240)
    /\ processedData.dominantPollutant.key = "pm10"
    /\ processedData.dominantPollutant.exceedsLimit

\* ------------------------------------------------- overlapping requests
\* The entries the memory Map holds under a key.
EntriesOf(k) == {i \in DOMAIN memoryCache : memoryCache[i].key = k}

\* The call missed the cache and has written its own result to it.
MissedAndWrote(c) ==
    /\ calls[c].pc \in {"cacheSet", "resolved"}
    /\ calls[c].cachedData = Absent

\* The results of the calls that missed the cache and wrote under key k.
WrittenUnder(k) ==
    {calls[c].result : c \in {x \in Calls : /\ MissedAndWrote(x)
                                             /\ calls[x].cacheKey = k}}

\* C23: two calls for the same location that both missed the cache are not
\* merged: each has made its own geocoding call and its own air-quality call
\* and has its own result, and the cache holds one entry for their key, not
\* two (exactly one until it expires, holding the result of a call that
\* wrote the key).
C23_OverlappingCallsNotDeduplicated ==
    \A c1, c2 \in Calls :
       (/\ c1 # c2
        /\ MissedAndWrote(c1) /\ MissedAndWrote(c2)
        /\ calls[c1].cacheKey = calls[c2].cacheKey)
       => /\ \A c \in {c1, c2} :
                /\ calls[c].geoCalls >= 1
                /\ calls[c].airCalls >= 1
                /\ calls[c].result # Absent
                /\ calls[c].result[1].location.city = calls[c].locationData.city
          /\ Cardinality(EntriesOf(calls[c1].cacheKey)) <= 1
          /\ (\E c \in {c1, c2} :
                 now <= calls[c].result[1].timestamp + CacheTTL)
               => \E i \in EntriesOf(calls[c1].cacheKey) :
                     Some(memoryCache[i].data)
                        \in WrittenUnder(calls[c1].cacheKey)

\* Both calls are in flight at once, each past its own cache miss and its own
\* network calls, each having written the key; one entry is there.
C23_Witness ==
    /\ calls[1].pc = "cacheSet" /\ calls[2].pc = "cacheSet"
    /\ calls[1].cachedData = Absent /\ calls[2].cachedData = Absent
    /\ calls[1].cacheKey = calls[2].cacheKey
    /\ calls[1].locationData # calls[2].locationData
    /\ calls[1].geoCalls = 1 /\ calls[2].geoCalls = 2
    /\ Cardinality(EntriesOf(calls[1].cacheKey)) = 1

\* ------------------------------------------------ the order of the steps
\* What the cache stores, in either tier: the entries without their access
\* statistics.
Stored(mem, ls) ==
    LET Entry(it) == [key |-> it.key, data |-> it.data,
                      createdAt |-> it.createdAt, expiresAt |-> it.expiresAt]
    IN  {Entry(mem[i]) : i \in DOMAIN mem}
          \cup {Entry(JSONparse(ls[k])) : k \in {x \in DOMAIN ls : ls[x] # NoItem}}

\* Where one step of a call can take it.
StepsInOrder ==
    { <<"idle", "cacheGet">>, <<"idle", "cacheGetCaught">>,
      <<"cacheGet", "resolved">>, <<"cacheGet", "geocoding">>,
      <<"cacheGetCaught", "geocoding">>,
      <<"geocoding", "delay">>, <<"delay", "geocoding">>,
      <<"geocoding", "rejected">>, <<"geocoding", "air-quality">>,
      <<"air-quality", "delay">>, <<"delay", "air-quality">>,
      <<"air-quality", "rejected">>, <<"air-quality", "cacheSet">>,
      <<"cacheSet", "resolved">> }

\* One step of call c keeps to the order cache check, geocoding, air-quality
\* fetch, cache write.
OrderKept(c) ==
    LET call == calls[c]
        next == calls'[c]
    IN  /\ next.pc # call.pc => <<call.pc, next.pc>> \in StepsInOrder
        /\ next.geoCalls > call.geoCalls
             => /\ call.airCalls = 0
                /\ call.geoCalls = 0 => call.pc \in {"cacheGet", "cacheGetCaught"}
        /\ next.airCalls > call.airCalls
             => \/ call.pc = "geocoding" /\ next.pc = "air-quality"
                \/ call.pc = "delay" /\ call.airCalls >= 1
        /\ (next # call /\ call.pc # "idle" /\ next.pc # "cacheSet")
             => UNCHANGED <<memoryCache, localStorage>>

\* An entry is stored only by a call whose air-quality fetch has just
\* succeeded: under its key, holding its result.
WrittenAfterFetch ==
    LET new == Stored(memoryCache', localStorage')
                 \ Stored(memoryCache, localStorage)
    IN  new # {}
        => \E c \in Calls :
              /\ calls[c].pc = "air-quality" /\ calls'[c].pc = "cacheSet"
              /\ \A e \in new : /\ e.key = calls[c].cacheKey
                                /\ Some(e.data) = calls'[c].result

\* The cache check of a call that misses stores nothing, and removes nothing
\* but an expired entry under the key of the call.
MissRemovesOnlyExpired(c) ==
    (calls[c].pc = "idle" /\ calls'[c].pc # "idle"
       /\ calls'[c].cachedData = Absent)
    => LET before == Stored(memoryCache, localStorage)
           after == Stored(memoryCache', localStorage')
       IN  /\ after \subseteq before
           /\ \A e \in before \ after :
                 e.key = calls'[c].cacheKey /\ now > e.expiresAt

\* C24 as stated, its last clause: a call that has ended in failure has left
\* the cache as it was.
C24_FailedCallLeavesCacheUnchanged ==
    \A c \in Calls : calls[c].pc = "rejected" => ~calls[c].cacheChanged

\* C24 as amended: a call takes its steps in the order cache check,
\* geocoding, air-quality fetch, cache write; the air-quality service is
\* called only after a geocoding attempt of the same call succeeded; an
\* entry is stored only after the air-quality fetch succeeded; a call that
\* ends in failure stores nothing, and changes the cache at most by its
\* cache check deleting an expired entry under its key.
C24_StepOrder ==
    [][/\ \A c \in Calls : OrderKept(c) /\ MissRemovesOnlyExpired(c)
       /\ WrittenAfterFetch]_vars

\* A call has failed in its air-quality fetch, after its cache check deleted
\* an expired entry and its geocoding succeeded on the second attempt.
C24_Witness ==
    \E c \in Calls :
       /\ calls[c].pc = "rejected"
       /\ calls[c].error.type = "air-quality"
       /\ calls[c].cacheChanged
       /\ calls[c].geoCalls = 2
       /\ calls[c].airCalls = RetryAttempts
       /\ calls[c].cacheKey \notin MemKeys(memoryCache)

\* ------------------------------------------------- writers of the cache
\* The air-quality entries the cache holds, tier by tier.
AirQualityEntries(mem, ls) ==
    [memory |-> {it \in {mem[i] : i \in DOMAIN mem} : it.key \in FacadeKeys},
     storage |-> {k \in FacadeKeys : ls[k] # NoItem}]

\* C25: a health check, of the cache or of the orchestrator, leaves the set
\* of cached air-quality entries as it was: in whatever state the cache is,
\* running it neither adds nor evicts an entry.
C25_HealthCheckLeavesEntries ==
    \A writeOk \in BOOLEAN :
       LET r == CacheHealthCheck(memoryCache, localStorage, now, writeOk)
       IN  AirQualityEntries(r.mem, r.ls)
             = AirQualityEntries(memoryCache, localStorage)

\* ------------------------------------------------------ retry backoff
\* Attempt number attempt of an operation of call c fails in this step.
AttemptFails(c) ==
    /\ calls[c].pc \in {"geocoding", "air-quality"}
    /\ calls'[c].pc \in {"delay", "rejected"}

MaxHideTimers == 2      \* _finishHide timers pending at once

outsideLoading == <<facadeVars, aqVars, busVars, session, commands, configure>>

\* The messages show() is called with; Undefined is a call without one.
Messages == {Undefined, "Test loading"}

\* updateMessage(message)
UpdateMessage(l, message) ==
    IF message = Undefined \/ ~l.isActive THEN l
    ELSE [l EXCEPT !.currentMessage = message]

\* show(options): an active component only takes the message; an inactive
\* one becomes active, renders, and arms the timeout timer.
ShowLoading(l, message) ==
    IF l.isActive THEN UpdateMessage(l, message)
    ELSE [l EXCEPT !.isActive = TRUE,
                   !.progress = 0,
                   !.currentMessage = IF message = Undefined
                                      THEN DefaultMessage ELSE message,
                   !.rendered = TRUE,
                   !.timeoutId = "timer",
                   !.timeoutArmed = TRUE]

\* _finishHide(duration): classes and content go, the state is reset.
FinishHide(l) ==
    [l EXCEPT !.isActive = FALSE, !.timeoutId = "null", !.progress = 0,
              !.currentMessage = DefaultMessage,
              !.hiding = FALSE, !.rendered = FALSE]

\* hide(): nothing when inactive; else the timeout timer is cleared, and
\* _finishHide runs now, or 300 ms later when config.animated is set.
HideLoading(l) ==
    IF ~l.isActive THEN l
    ELSE LET cleared == IF l.timeoutId # "null"
                        THEN [l EXCEPT !.timeoutId = "null",
                                       !.timeoutArmed = FALSE]
                        ELSE l
         IN  IF l.animated
             THEN [cleared EXCEPT !.hiding = TRUE, !.finishTimers = @ + 1]
             ELSE FinishHide(cleared)

\* updateProgress(progress): clamped to 0..100, ignored when inactive.
UpdateProgress(l, progress) ==
    IF ~l.isActive THEN l
    ELSE [l EXCEPT !.progress = IF progress < 0 THEN 0
                                ELSE IF progress > 100 THEN 100 ELSE progress]

\* The types a template exists for.
Templates == {"spinner", "dots", "bar", "skeleton", "pulse"}

\* setType(type)
SetTypeOf(l, type) == IF type \in Templates THEN [l EXCEPT !.type = type] ELSE l

Construct(animated) ==
    /\ loading' = NewLoading(animated)
    /\ UNCHANGED outsideLoading

Show(message) ==
    /\ loading' = [ShowLoading(loading, message) EXCEPT !.returned = "show",
                                                       !.lastCall = "show"]
    /\ UNCHANGED outsideLoading

Hide ==
    /\ loading.isActive /\ loading.animated
         => loading.finishTimers < MaxHideTimers
    /\ loading' = [HideLoading(loading) EXCEPT !.returned = "hide",
                                               !.lastCall = "hide"]
    /\ UNCHANGED outsideLoading

Progress(progress) ==
    /\ loading' = [UpdateProgress(loading, progress) EXCEPT !.returned = "none"]
    /\ UNCHANGED outsideLoading

SetType(type) ==
    /\ loading' = [SetTypeOf(loading, type) EXCEPT !.returned = "none"]
    /\ UNCHANGED outsideLoading

\* The 300 ms timer of hide() fires.
HideTimerFires ==
    /\ loading.finishTimers > 0
    /\ loading' = [FinishHide([loading EXCEPT !.finishTimers = @ - 1])
                     EXCEPT !.returned = "none"]
    /\ UNCHANGED outsideLoading

\* The timeout timer of show() fires: hide(), then 'loading:timeout'.
TimeoutFires ==
    /\ loading.timeoutArmed
    /\ loading.isActive /\ loading.animated
         => loading.finishTimers < MaxHideTimers
    /\ loading' = [HideLoading([loading EXCEPT !.timeoutArmed = FALSE])
                     EXCEPT !.returned = "none", !.lastCall = "hide"]
    /\ UNCHANGED outsideLoading

NextLoading ==
    \/ \E animated \in BOOLEAN : Construct(animated)
    \/ \E message \in Messages : Show(message)
    \/ Hide
    \/ \E progress \in {-10, 50, 150} : Progress(progress)
    \/ \E type \in {"spinner", "dots", "circle"} : SetType(type)
    \/ HideTimerFires
    \/ TimeoutFires

SpecLoading == Init /\ [][NextLoading]_vars

\* C27: whatever the configuration of the component, isActive() is true as
\* soon as show() has returned and false as soon as hide() has returned.
C27_ActiveFollowsShowAndHide ==
    /\ loading.returned = "show" => loading.isActive
    /\ loading.returned = "hide" => ~loading.isActive

\* -------------------------------------- FormComponent and the controller
MaxSubmits == 3         \* submit attempts in one run
MaxSearches == 2        \* searches started in one run

outsideSession == <<facadeVars, aqVars, busVars, loading, commands, configure>>

\* What the user has typed in the city field: a plain name, a name with a
\* dot, a single letter.
FormInputs == {"Rio", "St. Louis", "R"}

\* FormComponent._validateForm: at least 2 characters, made of letters,
\* spaces, hyphens and dots.
FormValid(input) == input \in {"Rio", "St. Louis"}

\* AirQualityController._validateFormData: at least 2 characters, none of
\* them a digit or one of the listed punctuation marks (the dot is one).
ControllerValid(input) == input \in {"Rio"}

\* _handleAPIError(errorData) for the error of search s: the error is pushed
\* on state.errors and 'ui:show:error' is published.
HandleAPIError(ses, s) ==
    [ses EXCEPT !.errors = Append(@, s),
                !.shown = Append(@, [type |-> "api", search |-> s])]

\* _addCommand(command): the history is cut after the current index, the
\* command is pushed and becomes current (maxHistory is never reached here).
AddCommand(ses, command) ==
    LET kept == SubSeq(ses.commandHistory, 1, ses.currentCommandIndex + 1)
    IN  [ses EXCEPT !.commandHistory = Append(kept, command),
                    !.currentCommandIndex = Len(kept)]

\* The controller's subscriber of 'form:submit', up to its first await:
\* _handleFormSubmit, _executeCurrentCommand, SearchCommand.execute and
\* getAirQualityData until it awaits the cache ('api:loading:start' sets
\* isLoading).  Data the controller rejects only shows a validation error.
HandleFormSubmit(ses, input) ==
    IF ~ControllerValid(input)
    THEN [ses EXCEPT !.shown = Append(@, [type |-> "validation", search |-> 0])]
    ELSE LET s == Len(ses.searches) + 1
         IN  [AddCommand(ses, s) EXCEPT !.searches = Append(@, "running"),
                                        !.isLoading = TRUE]

\* _handleSubmit up to `await this._validateForm(formData)`.
SubmitAttempt(input) ==
    /\ session.submits < MaxSubmits
    /\ session' = IF session.isSubmitting
                  THEN [session EXCEPT !.submits = @ + 1]
                  ELSE [session EXCEPT !.submits = @ + 1,
                                       !.isSubmitting = TRUE,
                                       !.validating = Some(input)]
    /\ UNCHANGED outsideSession

\* _handleSubmit after the await: valid data is published as 'form:submit'
\* (the subscribers run inside publish), and the finally block releases the
\* form.
ValidationReturns ==
    /\ session.validating # Absent
    /\ LET input == session.validating[1]
           released == [session EXCEPT !.isSubmitting = FALSE,
                                       !.validating = Absent]
       IN  IF FormValid(input)
           THEN /\ ControllerValid(input) => Len(session.searches) < MaxSearches
                /\ session' = HandleFormSubmit(
                                 [released EXCEPT !.formSubmits = @ + 1], input)
           ELSE session' = released
    /\ UNCHANGED outsideSession

\* getAirQualityData of search s returns: from the cache, or after
\* 'api:success' (whose subscriber empties state.errors); 'api:loading:end'
\* follows in both cases.
FacadeResolves(s, fromCache) ==
    /\ s \in DOMAIN session.searches
    /\ session.searches[s] = "running"
    /\ session' = [session EXCEPT
                     !.searches[s] = "resolved",
                     !.errors = IF fromCache THEN @ ELSE <<>>,
                     !.isLoading = FALSE]
    /\ UNCHANGED outsideSession

\* getAirQualityData of search s throws: its catch block publishes
\* 'api:error', its finally block 'api:loading:end'.
FacadeRejects(s) ==
    /\ s \in DOMAIN session.searches
    /\ session.searches[s] = "running"
    /\ session' = [HandleAPIError(session, s) EXCEPT
                     !.searches[s] = "thrown",
                     !.isLoading = FALSE]
    /\ UNCHANGED outsideSession

\* _executeCurrentCommand after `await command.execute()`: 'search:success'.
CommandReturns(s) ==
    /\ s \in DOMAIN session.searches
    /\ session.searches[s] = "resolved"
    /\ session' = [session EXCEPT !.searches[s] = "succeeded"]
    /\ UNCHANGED outsideSession

\* The catch block of _executeCurrentCommand: 'search:error', whose
\* subscriber _handleSearchError publishes 'api:error' with the error.
CommandThrows(s) ==
    /\ s \in DOMAIN session.searches
    /\ session.searches[s] = "thrown"
    /\ session' = [HandleAPIError(session, s) EXCEPT !.searches[s] = "failed"]
    /\ UNCHANGED outsideSession

NextSession ==
    \/ \E input \in FormInputs : SubmitAttempt(input)
    \/ ValidationReturns
    \/ \E s \in 1..MaxSearches, fromCache \in BOOLEAN : FacadeResolves(s, fromCache)
    \/ \E s \in 1..MaxSearches : FacadeRejects(s)
    \/ \E s \in 1..MaxSearches : CommandReturns(s)
    \/ \E s \in 1..MaxSearches : CommandThrows(s)

SpecSession == Init /\ [][NextSession]_vars

\* The search of a submission is under way: 'api:loading:end' is to come.
SearchUnderWay ==
    \E s \in DOMAIN session.searches : session.searches[s] = "running"

\* C28: from the 'form:submit' of a valid submission until its search
\* completes with 'api:loading:end', no further 'form:submit' is published
\* and no further search is started, whatever is submitted meanwhile.
C28_NoSubmitDuringSearch ==
    [][SearchUnderWay
         => /\ session'.formSubmits = session.formSubmits
            /\ Len(session'.searches) = Len(session.searches)]_vars

\* The 'ui:show:error' events published for the failure of search s.
ShownFor(s) ==
    Len(SelectSeq(session.shown,
                  LAMBDA e : e.type = "api" /\ e.search = s))

\* C30: for one search that failed, 'ui:show:error' is published exactly
\* once, and when it is the only search of the session its error is in
\* state.errors exactly once.
C30_FailureReportedOnce ==
    \A s \in DOMAIN session.searches :
       session.searches[s] = "failed"
       => /\ ShownFor(s) = 1
          /\ Len(session.searches) = 1 => session.errors = <<s>>

\* -------------------------------------------------------- CommandManager
MaxHistorySize == 2     \* maxHistorySize (constructor argument)
MaxPending == 2         \* asynchronous calls pending at once

outsideCommands == <<facadeVars, aqVars, busVars, loading, session, configure>>

CommandIds == {"c1", "c2"}

\* Array.prototype.slice(0, end) on a history: a negative end counts from
\* the end of the array.
SliceTo(history, end) ==
    LET n == Len(history)
        stop == IF end < 0 THEN (IF n + end < 0 THEN 0 ELSE n + end)
                ELSE IF end > n THEN n ELSE end
    IN  SubSeq(history, 1, stop)

\* Array.prototype.slice(-count): the last count elements.
SliceLast(history, count) ==
    IF Len(history) <= count THEN history
    ELSE SubSeq(history, Len(history) - count + 1, Len(history))

\* history[index], for an index that may be outside the array.
Defined(cm, index) == index >= 0 /\ index < Len(cm.history)

At(cm, index) == cm.history[index + 1]

CanUndo(cm) ==
    /\ cm.currentIndex >= 0
    /\ Defined(cm, cm.currentIndex)
    /\ At(cm, cm.currentIndex) \in cm.executed

CanRedo(cm) ==
    /\ cm.currentIndex < Len(cm.history) - 1
    /\ Defined(cm, cm.currentIndex + 1)
    /\ At(cm, cm.currentIndex + 1) \notin cm.executed

\* A call suspended at its await.
PendingCall(op, command) == [op |-> op, command |-> command]

\* executeCommand(command) up to `await command.execute()`.
ExecuteCommand(command) ==
    /\ Cardinality(commands.pending) < MaxPending
    /\ PendingCall("execute", command) \notin commands.pending
    /\ commands' = [commands EXCEPT
                      !.pending = @ \cup {PendingCall("execute", command)},
                      !.thrown = FALSE, !.notified = "none"]
    /\ UNCHANGED outsideCommands

\* A slip that pushes the command on the history before it has succeeded.
ExecuteFailedAfterPush(cm, command) ==
    [cm EXCEPT !.pending = @ \ {PendingCall("execute", command)},
               !.executed = @ \ {command},
               !.history = Append(SliceTo(@, cm.currentIndex + 1), command),
               !.currentIndex = Len(SliceTo(cm.history, cm.currentIndex + 1)),
               !.thrown = TRUE,
               !.notified = "command:error"]

\* The catch block of executeCommand: 'command:error' is notified and the
\* error is thrown on; the command is not executed.
ExecuteFailed(cm, command) ==
    [cm EXCEPT !.pending = @ \ {PendingCall("execute", command)},
               !.executed = @ \ {command},
               !.thrown = TRUE,
               !.notified = "command:error"]

\* executeCommand after the await: a command that succeeded is marked
\* executed and pushed on the history cut at the current index; one that
\* failed is marked not executed and the error is thrown on.
ExecuteResumes(command, ok) ==
    /\ PendingCall("execute", command) \in commands.pending
    /\ LET rest == commands.pending \ {PendingCall("execute", command)}
           pushed == Append(SliceTo(commands.history, commands.currentIndex + 1),
                            command)
           limited == IF Len(pushed) > MaxHistorySize
                      THEN SliceLast(pushed, MaxHistorySize) ELSE pushed
       IN  commands' =
             IF ok
             THEN [commands EXCEPT !.pending = rest,
                                   !.executed = @ \cup {command},
                                   !.history = limited,
                                   !.currentIndex = Len(limited) - 1,
                                   !.thrown = FALSE,
                                   !.notified = "command:executed"]
             ELSE ExecuteFailed(commands, command)
    /\ UNCHANGED outsideCommands

\* The pending undo of a command, by whether command.undo() is fulfilled.
UndoCall(command, ok) ==
    PendingCall(IF ok THEN "undo" ELSE "undoFails", command)

\* undo() up to `await command.undo()`: it throws when canUndo() is false;
\* else the command's undo runs: one that will be fulfilled has marked the
\* command not executed, one that will be rejected has left it as it was.
Undo(ok) ==
    /\ IF ~CanUndo(commands)
       THEN commands' = [commands EXCEPT !.thrown = TRUE, !.notified = "none"]
       ELSE LET command == At(commands, commands.currentIndex)
            IN  /\ Cardinality(commands.pending) < MaxPending
                /\ UndoCall(command, TRUE) \notin commands.pending
                /\ UndoCall(command, FALSE) \notin commands.pending
                /\ commands' = [commands EXCEPT
                       !.executed = IF ok THEN @ \ {command} ELSE @,
                       !.pending = @ \cup {UndoCall(command, ok)},
                       !.thrown = FALSE,
                       !.notified = "none"]
    /\ UNCHANGED outsideCommands

\* undo() after the await: currentIndex-- and 'command:undone', or the catch
\* block: 'command:undo:error' and the error thrown on.
UndoResumes(command, ok) ==
    /\ UndoCall(command, ok) \in commands.pending
    /\ LET rest == commands.pending \ {UndoCall(command, ok)}
       IN  commands' =
             IF ok
             THEN [commands EXCEPT !.pending = rest,
                                   !.currentIndex = @ - 1,
                                   !.thrown = FALSE,
                                   !.notified = "command:undone"]
             ELSE [commands EXCEPT !.pending = rest,
                                   !.thrown = TRUE,
                                   !.notified = "command:undo:error"]
    /\ UNCHANGED outsideCommands

\* redo() up to `await command.execute()`.
Redo ==
    /\ IF ~CanRedo(commands)
       THEN commands' = [commands EXCEPT !.thrown = TRUE, !.notified = "none"]
       ELSE LET command == At(commands, commands.currentIndex + 1)
            IN  /\ Cardinality(commands.pending) < MaxPending
                /\ PendingCall("redo", command) \notin commands.pending
                /\ commands' = [commands EXCEPT
                       !.pending = @ \cup {PendingCall("redo", command)},
                       !.thrown = FALSE,
                       !.notified = "none"]
    /\ UNCHANGED outsideCommands

\* redo() after the await: currentIndex++ when the command succeeded.
RedoResumes(command, ok) ==
    /\ PendingCall("redo", command) \in commands.pending
    /\ LET rest == commands.pending \ {PendingCall("redo", command)}
       IN  commands' =
             IF ok
             THEN [commands EXCEPT !.pending = rest,
                                   !.executed = @ \cup {command},
                                   !.currentIndex = @ + 1,
                                   !.thrown = FALSE,
                                   !.notified = "command:redone"]
             ELSE [commands EXCEPT !.pending = rest,
                                   !.executed = @ \ {command},
                                   !.thrown = TRUE,
                                   !.notified = "command:redo:error"]
    /\ UNCHANGED outsideCommands

ClearHistory ==
    /\ commands' = [commands EXCEPT !.history = <<>>, !.currentIndex = -1,
                                    !.thrown = FALSE,
                                    !.notified = "history:cleared"]
    /\ UNCHANGED outsideCommands

NextCommands ==
    \/ \E command \in CommandIds : ExecuteCommand(command)
    \/ \E command \in CommandIds, ok \in BOOLEAN : ExecuteResumes(command, ok)
    \/ \E ok \in BOOLEAN : Undo(ok)
    \/ \E command \in CommandIds, ok \in BOOLEAN : UndoResumes(command, ok)
    \/ Redo
    \/ \E command \in CommandIds, ok \in BOOLEAN : RedoResumes(command, ok)
    \/ ClearHistory

SpecCommands == Init /\ [][NextCommands]_vars

\* C29: in every reachable state, whatever the interleaving of
\* executeCommand, undo, redo and clearHistory, calls started while an
\* earlier one is pending included, -1 <= currentIndex <= history.length - 1.
C29_IndexWithinHistory ==
    /\ -1 <= commands.currentIndex
    /\ commands.currentIndex <= Len(commands.history) - 1

\* ------------------------------------------------ removal from the cache
\* C31: once an entry has left the cache, by the eviction of a set at
\* capacity, by delete or by clear, a get for its key returns null.
C31_RemovedIsAbsent ==
    [][/\ \A k2 \in CacheKeys, ttl \in TTLs, writeOk \in BOOLEAN :
            \A d \in CacheData(k2) :
               DoSet(k2, d, ttl, writeOk)
               => \A k \in MemKeys(memoryCache) \ MemKeys(memoryCache') :
                     CacheGet(memoryCache', localStorage', k, now).ret = Absent
       /\ \A k \in CacheKeys :
            DoDelete(k)
            => CacheGet(memoryCache', localStorage', k, now).ret = Absent
       /\ DoClear
            => \A k \in CacheKeys :
                  CacheGet(memoryCache', localStorage', k, now).ret = Absent]_vars

\* C32: the latest of the show() and hide() calls decides where the
\* component ends up: when the latest call was show(), then once no
\* _finishHide timer is pending the component is active and rendered.
C32_LastCallWins ==
    (loading.lastCall = "show" /\ loading.finishTimers = 0)
    => loading.isActive /\ loading.rendered

\* C33: the 'good' message set is the recommendation of a result only when
\* its classification is 'good' or 'unknown': every other level the
\* classifier returns has a message set of its own.
C33_GoodMessagesOnlyForGood ==
    processedData # NoData
    => (processedData.healthRecommendation = "good"
          => processedData.aqi.classification \in {"good", "unknown"})

\* C34: over a sequence of publish calls a listener registered with
\* once: true is invoked no more than once, a listener whose callback
\* throws included: a publish never invokes a once listener that the
\* publish just before it has invoked.
C34_OnceInvokedAtMostOnce ==
    [][DoPublish =>
         \A i \in DOMAIN listeners :
            listeners[i].once
            => Invocations(invoked, listeners[i].uid)
                 + Invocations(invoked', listeners[i].uid) <= 1]_vars

\* The class of a command: c1 is a SearchCommand, c2 a ConfigureCommand
\* (both keep Command's canUndo and canRedo).
CommandType(command) ==
    IF command = "c1" THEN "SearchCommand" ELSE "ConfigureCommand"

\* Only SearchCommand has a serialize method.
HasSerialize(command) == CommandType(command) = "SearchCommand"

\* SearchCommand.serialize()
SerializeCommand(cm, command) ==
    [type |-> "SearchCommand", id |-> command,
     executed |-> command \in cm.executed]

\* CommandManager.serialize(): history.map(cmd => cmd.serialize ?
\* cmd.serialize() : null).filter(Boolean)
Serialize(cm) ==
    LET kept == SelectSeq(cm.history, HasSerialize)
    IN  [history |-> [i \in DOMAIN kept |-> SerializeCommand(cm, kept[i])],
         currentIndex |-> cm.currentIndex,
         maxHistorySize |-> MaxHistorySize]

\* data.currentIndex || -1
IndexOrDefault(currentIndex) == IF currentIndex # 0 THEN currentIndex ELSE -1

\* CommandManager.deserialize(data, dependencies) on the manager cm: the
\* commands of type 'SearchCommand' are rebuilt, every other one is dropped.
Deserialize(cm, data) ==
    LET kept == SelectSeq(data.history,
                          LAMBDA cmdData : cmdData.type = "SearchCommand")
    IN  [cm EXCEPT
           !.currentIndex = IndexOrDefault(data.currentIndex),
           !.history = [i \in DOMAIN kept |-> kept[i].id],
           !.executed = {kept[i].id : i \in {j \in DOMAIN kept :
                                               kept[j].executed}}]

\* C35: for every reachable state of a manager, deserialize on a fresh
\* manager of what serialize returns gives the same currentIndex and as
\* many history entries, so currentIndex is still within the history.
C35_RoundTripKeepsIndexAndLength ==
    LET restored == Deserialize(NewCommands, Serialize(commands))
    IN  /\ restored.currentIndex = commands.currentIndex
        /\ Len(restored.history) = Len(commands.history)
        /\ -1 <= restored.currentIndex
        /\ restored.currentIndex <= Len(restored.history) - 1

\* ---------------------------------------------------------------------
\* ConfigureCommand
\* ---------------------------------------------------------------------

outsideConfigure == <<facadeVars, aqVars, busVars, loading, session, commands>>

\* Object.assign(target, source): every key the source has is copied.
ObjectAssign(target, source) ==
    [k \in ConfigKeys |->
        IF source[k] # Undefined THEN source[k] ELSE target[k]]

\* new ConfigureCommand(newConfig, target.config): previousConfig is a copy
\* of the target's config as it is now.
ConstructConfigure(newConfig) ==
    /\ configure' = [configure EXCEPT
                       !.constructed = TRUE,
                       !.newConfig = newConfig,
                       !.previousConfig = configure.config,
                       !.targetObject = FALSE,
                       !.executed = FALSE,
                       !.before = NoKeys,
                       !.last = "construct",
                       !.thrown = FALSE]
    /\ UNCHANGED outsideConfigure

\* setTarget(target)
SetTarget ==
    /\ configure.constructed
    /\ configure' = [configure EXCEPT !.targetObject = TRUE,
                                      !.last = "setTarget",
                                      !.thrown = FALSE]
    /\ UNCHANGED outsideConfigure

\* Some other code writes target.config[key] = value.
ChangeConfig(key, value) ==
    /\ configure' = [configure EXCEPT !.config[key] = value,
                                      !.last = "change",
                                      !.thrown = FALSE]
    /\ UNCHANGED outsideConfigure

\* ConfigureCommand.execute()
ExecuteConfigure ==
    /\ configure.constructed
    /\ configure' =
         IF ~configure.targetObject
         THEN [configure EXCEPT !.thrown = TRUE, !.last = "execute"]
         ELSE [configure EXCEPT
                 !.config = ObjectAssign(configure.config, configure.newConfig),
                 !.executed = TRUE,
                 !.before = configure.config,
                 !.last = "execute",
                 !.thrown = FALSE]
    /\ UNCHANGED outsideConfigure

\* ConfigureCommand.undo()
UndoConfigure ==
    /\ configure.constructed
    /\ configure' =
         IF ~configure.executed \/ ~configure.targetObject
         THEN [configure EXCEPT !.thrown = TRUE, !.last = "undo"]
         ELSE [configure EXCEPT
                 !.config = ObjectAssign(configure.config,
                                         configure.previousConfig),
                 !.executed = FALSE,
                 !.last = "undo",
                 !.thrown = FALSE]
    /\ UNCHANGED outsideConfigure

NextConfigure ==
    \/ \E newConfig \in [ConfigKeys -> ConfigValues \cup {Undefined}] :
          ConstructConfigure(newConfig)
    \/ SetTarget
    \/ \E key \in ConfigKeys, value \in ConfigValues : ChangeConfig(key, value)
    \/ ExecuteConfigure
    \/ UndoConfigure

SpecConfigure == Init /\ [][NextConfigure]_vars

\* C36: execute() followed by undo() leaves target.config as it was just
\* before execute(), whatever the newConfig, keys the target does not have
\* included, and also when the target's config has changed between the
\* command's construction and its execution.
C36_UndoRestoresConfig ==
    [][(/\ UndoConfigure
        /\ configure.last = "execute"
        /\ configure.executed)
       => configure'.config = configure.before]_vars

\* C37: state.isLoading is true whenever at least one getAirQualityData
\* call is in flight, overlapping searches included, and false when none is.
C37_LoadingWhileInFlight ==
    session.isLoading
      <=> (\E s \in DOMAIN session.searches : session.searches[s] = "running")

\* The steps of the getAirQualityData calls at one reading of the clock
\* (the clock only decides whether a cache entry has expired).
NextCalls ==
    \/ \E c \in Calls, q \in Queries : Start(c, q)
    \/ \E c \in Calls : AfterCacheGet(c)
    \/ \E c \in Calls, outcome \in GeoOutcomes : GeocodeReturns(c, outcome)
    \/ \E c \in Calls : DelayElapsed(c)
    \/ \E c \in Calls, outcome \in AirOutcomes, writeOk \in BOOLEAN :
          AirQualityReturns(c, outcome, writeOk)
    \/ \E c \in Calls : AfterCacheSet(c)

\* The calls when every network call, every backoff timer and every cache
\* operation a call awaits settles at some time: a step of a call that stays
\* possible is taken.
SpecSettling ==
    /\ Init /\ [][NextCalls]_vars
    /\ \A c \in Calls :
          /\ WF_vars(AfterCacheGet(c))
          /\ WF_vars(\E outcome \in GeoOutcomes : GeocodeReturns(c, outcome))
          /\ WF_vars(DelayElapsed(c))
          /\ WF_vars(\E outcome \in AirOutcomes, writeOk \in BOOLEAN :
                        AirQualityReturns(c, outcome, writeOk))
          /\ WF_vars(AfterCacheSet(c))

\* C38: when every network call and every backoff timer settles, every
\* getAirQualityData call that has started is resolved or rejected at some
\* time, and no call ever makes more than retryAttempts geocoding attempts
\* or more than retryAttempts air-quality attempts.
C38_EveryCallSettles ==
    /\ [](\A c \in Calls : /\ calls[c].geoCalls <= RetryAttempts
                           /\ calls[c].airCalls <= RetryAttempts)
    /\ \A c \in Calls : (calls[c].pc # "idle") ~> Settled(calls[c])

\* A call was resolved after using every attempt of both operations.
C38_Witness ==
    \E c \in Calls :
       /\ calls[c].pc = "resolved"
       /\ calls[c].geoCalls = RetryAttempts
       /\ calls[c].airCalls = RetryAttempts

\* C39: when command.execute() rejects inside executeCommand, the history
\* and currentIndex stay as they are, the listeners are notified of
\* 'command:error' and the error is thrown to the caller; a redo whose
\* execute rejects and an undo whose undo rejects leave currentIndex as it is.
C39_FailureLeavesHistory ==
    [][\A command \in CommandIds :
          /\ ExecuteResumes(command, FALSE)
               => /\ commands'.history = commands.history
                  /\ commands'.currentIndex = commands.currentIndex
                  /\ commands'.notified = "command:error"
                  /\ commands'.thrown
          /\ RedoResumes(command, FALSE)
               => commands'.currentIndex = commands.currentIndex
          /\ UndoResumes(command, FALSE)
               => commands'.currentIndex = commands.currentIndex]_vars

\* An execute was rejected while the history held a command.
C39_Witness ==
    /\ commands.notified = "command:error"
    /\ commands.thrown
    /\ Len(commands.history) >= 1

\* ------------------------------------------- handlers that change the registry
\* The callbacks of the listeners here: one that returns, one that
\* subscribes a listener, one that unsubscribes the listeners of id 'a'.
SnapshotCallbacks == {"plain", "subscribes", "unsubscribes"}

NextSnapshot ==
    \/ \E callback \in SnapshotCallbacks, once \in BOOLEAN,
          priority \in Priorities, id \in GivenIds :
          Subscribe(callback, once, priority, id)
    \/ \E h \in DOMAIN handles : CallUnsubscribe(h)
    \/ DoPublish

SpecSnapshot == Init /\ [][NextSnapshot]_vars

\* C40: publish walks the listeners that were registered when it started: it
\* invokes none that a handler subscribed during the publish, and it invokes
\* once every listener registered at its start, also one that an earlier
\* handler of the same publish has unsubscribed.
C40_PublishWalksSnapshot ==
    [][DoPublish =>
         /\ \A k \in DOMAIN invoked' : Registered(listeners, invoked'[k].uid)
         /\ \A i \in DOMAIN listeners :
               Invocations(invoked', listeners[i].uid) = 1]_vars

\* A publish has invoked a listener of id 'a' after a handler that
\* unsubscribes 'a', so that it is gone from the registry, and has left
\* registered, without invoking it, the listener a handler subscribed.
C40_Witness ==
    /\ publishOutcome = "returned"
    /\ Registered(listeners, LateListener.uid)
    /\ Invocations(invoked, LateListener.uid) = 0
    /\ \E j, k \in DOMAIN invoked :
          /\ j < k
          /\ Registered(listeners, invoked[j].uid)
          /\ CallbackOf(listeners, invoked[j].uid) = "unsubscribes"
          /\ ~Registered(listeners, invoked[k].uid)
          /\ handles[invoked[k].uid] = "a"

====
